---- MODULE Spec2Model ----
(***************************************************************************)
(* State-machine model of the LED tape light effect engine                 *)
(* (color_signal_system): segments, effects, scene palettes, the OSC       *)
(* control plane and the render loop.                                      *)
(*                                                                         *)
(* Number representation.  Python floats are modelled as exact rationals   *)
(* with a fixed denominator:                                               *)
(*   - positions (current_position) are stored multiplied by PosDen;       *)
(*   - transparencies / accumulated opacity are stored multiplied by       *)
(*     OpDen;                                                              *)
(*   - a brightness is a pair <<num, den>>.                                *)
(* int(x) of Python (truncation toward zero) is PyInt.                     *)
(***************************************************************************)
EXTENDS Integers, Sequences, FiniteSets, TLC

(* ------------------------------ bounds -------------------------------- *)
PosDen == 2
OpDen == 64
MaxTicks == 2
MaxPos == 60

(* ------------------------------ helpers ------------------------------- *)
Abs(x) == IF x < 0 THEN -x ELSE x

Max2(a, b) == IF a >= b THEN a ELSE b

Min2(a, b) == IF a <= b THEN a ELSE b

\* Python int(n/d) for d > 0: truncation toward zero.
PyInt(n, d) == IF n >= 0 THEN n \div d ELSE -((-n) \div d)

\* max(0, min(255, v))
Clamp255(v) == Max2(0, Min2(255, v))

RECURSIVE SumSeq(_)
SumSeq(s) == IF s = <<>> THEN 0 ELSE Head(s) + SumSeq(Tail(s))

SetMin(S) == CHOOSE x \in S : \A y \in S : x <= y

\* sorted(ids): ascending sequence of the elements of a finite set of ints.
RECURSIVE SortedSeq(_)
SortedSeq(S) == IF S = {} THEN <<>>
                ELSE LET m == SetMin(S) IN <<m>> \o SortedSeq(S \ {m})

(* ------------------------- palettes (config) -------------------------- *)
PaletteNames == {"A", "B", "C", "D", "E"}

BLACK == <<0, 0, 0>>
RED == <<255, 0, 0>>
GREEN == <<0, 255, 0>>
BLUE == <<0, 0, 255>>

\* config.DEFAULT_COLOR_PALETTES: five palettes of six colours; palette A has
\* red at index 1 and blue at index 3.
DEFAULT_COLOR_PALETTES ==
    [n \in PaletteNames |->
        IF n = "A"
        THEN << BLACK, RED, GREEN, BLUE, <<255, 255, 0>>, <<0, 255, 255>> >>
        ELSE << BLACK, <<255, 255, 255>>, BLUE, GREEN, RED, <<255, 0, 255>> >>]

\* dict.get(palette_name, DEFAULT_COLOR_PALETTES["A"])
PaletteGet(name) ==
    IF name \in DOMAIN DEFAULT_COLOR_PALETTES
    THEN DEFAULT_COLOR_PALETTES[name] ELSE DEFAULT_COLOR_PALETTES["A"]

(* ------------------------------ segment ------------------------------- *)
\* LightSegment.calculate_rgb: colour indices -> RGB through the global
\* default palettes; an index outside the palette gives red; padded to 4.
RECURSIVE PadTo4(_)
PadTo4(rgb) == IF Len(rgb) >= 4 THEN rgb
               ELSE IF rgb = <<>> THEN PadTo4(<<RED>>)
               ELSE PadTo4(Append(rgb, rgb[Len(rgb)]))

calculate_rgb(color, palette_name) ==
    LET palette == PaletteGet(palette_name)
        one(ci) == IF ci >= 0 /\ ci < Len(palette) THEN palette[ci + 1] ELSE RED
    IN PadTo4([i \in 1..Len(color) |-> one(color[i])])

\* LightSegment.__init__ (models variant; `direction` is the extra field of
\* the core variant's constructor).
NewSegment(id, color, transparency, length, move_speed, move_range, initial_position, is_edge_reflect, dimmer_time) ==
    [segment_ID |-> id,
     color |-> color,
     transparency |-> transparency,
     length |-> length,
     move_speed |-> move_speed,
     move_range |-> move_range,
     initial_position |-> initial_position,
     current_position |-> initial_position * PosDen,
     is_edge_reflect |-> is_edge_reflect,
     dimmer_time |-> dimmer_time,
     gradient |-> FALSE,
     fade |-> FALSE,
     gradient_colors |-> <<0, -1, -1>>,
     rgb_color |-> calculate_rgb(color, "A"),
     total_length |-> SumSeq(length),
     direction |-> IF move_speed >= 0 THEN 1 ELSE -1]

\* setattr(self, name, value): known attributes are overwritten, unknown
\* names are stored as new attributes.
SetAttr(s, name, value) ==
    IF name \in DOMAIN s THEN [s EXCEPT ![name] = value]
    ELSE (name :> value) @@ s

\* the clamp at the end of models/LightSegment.update_param
ClampIntoRange(s) ==
    LET lo == s.move_range[1] * PosDen
        hi == s.move_range[2] * PosDen
    IN IF s.current_position < lo THEN [s EXCEPT !.current_position = lo]
       ELSE IF s.current_position > hi THEN [s EXCEPT !.current_position = hi]
       ELSE s

\* models/LightSegment.update_param
update_param_models(s, name, value) ==
    LET s1 == IF name = "color"
              THEN [s EXCEPT !.color = value,
                             !.rgb_color = calculate_rgb(value, "A")]
              ELSE SetAttr(s, name, value)
    IN IF name = "move_range" THEN ClampIntoRange(s1) ELSE s1

\* core/LightSegment.update_param
update_param_core(s, name, value) ==
    IF name = "color"
    THEN [s EXCEPT !.color = value, !.rgb_color = calculate_rgb(value, "A")]
    ELSE IF name = "move_speed"
    THEN LET flip == (value > 0 /\ s.move_speed < 0) \/ (value < 0 /\ s.move_speed > 0)
         IN [s EXCEPT !.move_speed = value,
                      !.direction = IF flip THEN -(s.direction) ELSE s.direction]
    ELSE IF name = "length"
    THEN [s EXCEPT !.length = value, !.total_length = SumSeq(value)]
    ELSE SetAttr(s, name, value)

\* update_param whose colour branch recomputes the RGB cache only
update_param_CacheOnly(variant, s, name, value) ==
    IF name = "color" THEN [s EXCEPT !.rgb_color = calculate_rgb(value, "A")]
    ELSE IF variant = "core" THEN update_param_core(s, name, value)
    ELSE update_param_models(s, name, value)

update_param(variant, s, name, value) ==
    IF variant = "core" THEN update_param_core(s, name, value)
    ELSE update_param_models(s, name, value)

\* delta = move_speed * (1.0 / fps), in position units (exact when fps
\* divides move_speed * PosDen, which the input sets guarantee).
Delta(move_speed, f) == (move_speed * PosDen) \div f

ExactStep(move_speed, f) == (move_speed * PosDen) % f = 0

\* update_position whose reflect branches mirror the position but keep the
\* sign of move_speed
update_position_models_NoFlip(s, f) ==
    LET lo == s.move_range[1] * PosDen
        hi == s.move_range[2] * PosDen
        cp == s.current_position + Delta(s.move_speed, f)
    IN IF cp < lo
       THEN [s EXCEPT !.current_position =
                          IF s.is_edge_reflect THEN 2 * lo - cp ELSE hi - (lo - cp)]
       ELSE IF cp > hi
       THEN [s EXCEPT !.current_position =
                          IF s.is_edge_reflect THEN 2 * hi - cp ELSE lo + (cp - hi)]
       ELSE [s EXCEPT !.current_position = cp]

\* update_position whose reflect tests are not strict: a step that lands
\* exactly on a boundary counts as a bounce
update_position_models_TieFlips(s, f) ==
    LET lo == s.move_range[1] * PosDen
        hi == s.move_range[2] * PosDen
        cp == s.current_position + Delta(s.move_speed, f)
    IN IF s.is_edge_reflect
       THEN IF cp <= lo
            THEN [s EXCEPT !.current_position = 2 * lo - cp,
                           !.move_speed = -(s.move_speed)]
            ELSE IF cp >= hi
            THEN [s EXCEPT !.current_position = 2 * hi - cp,
                           !.move_speed = -(s.move_speed)]
            ELSE [s EXCEPT !.current_position = cp]
       ELSE IF cp < lo
            THEN [s EXCEPT !.current_position = hi - (lo - cp)]
            ELSE IF cp > hi
            THEN [s EXCEPT !.current_position = lo + (cp - hi)]
            ELSE [s EXCEPT !.current_position = cp]

\* models/LightSegment.update_position
update_position_models(s, f) ==
    LET lo == s.move_range[1] * PosDen
        hi == s.move_range[2] * PosDen
        cp == s.current_position + Delta(s.move_speed, f)
    IN IF s.is_edge_reflect
       THEN IF cp < lo
            THEN [s EXCEPT !.current_position = 2 * lo - cp,
                           !.move_speed = -(s.move_speed)]
            ELSE IF cp > hi
            THEN [s EXCEPT !.current_position = 2 * hi - cp,
                           !.move_speed = -(s.move_speed)]
            ELSE [s EXCEPT !.current_position = cp]
       ELSE IF cp < lo
            THEN [s EXCEPT !.current_position = hi - (lo - cp)]
            ELSE IF cp > hi
            THEN [s EXCEPT !.current_position = lo + (cp - hi)]
            ELSE [s EXCEPT !.current_position = cp]

\* core/LightSegment.update_position
update_position_core(s, f) ==
    LET lo == s.move_range[1] * PosDen
        hi == s.move_range[2] * PosDen
        span == (s.move_range[2] - s.move_range[1] + 1) * PosDen
        np == s.current_position + Delta(s.move_speed, f)
    IN IF s.is_edge_reflect
       THEN IF np < lo
            THEN [s EXCEPT !.current_position = lo + (lo - np),
                           !.move_speed = Abs(s.move_speed),
                           !.direction = 1]
            ELSE IF np > hi
            THEN [s EXCEPT !.current_position = hi - (np - hi),
                           !.move_speed = -Abs(s.move_speed),
                           !.direction = -1]
            ELSE [s EXCEPT !.current_position = np]
       ELSE IF np < lo
            THEN [s EXCEPT !.current_position = hi - ((lo - np) % span)]
            ELSE IF np > hi
            THEN [s EXCEPT !.current_position = lo + ((np - hi) % span)]
            ELSE [s EXCEPT !.current_position = np]

update_position(variant, s, f) ==
    IF variant = "core" THEN update_position_core(s, f)
    ELSE update_position_models(s, f)

(* ------------------------------ rendering ----------------------------- *)
\* apply_dimming whose fade-out ramp rises instead of falling
apply_dimming_RisingOut(s, t_ms) ==
    IF ~s.fade \/ Len(s.dimmer_time) < 5 THEN <<1, 1>>
    ELSE IF s.dimmer_time[5] = 0 THEN <<1, 1>>
    ELSE LET F == s.dimmer_time
             t == t_ms % F[5]
             mi == Max2(1, F[2] - F[1])
             mo == Max2(1, F[4] - F[3])
         IN IF t < F[1] THEN <<0, 1>>
            ELSE IF t < F[2] THEN <<(t - F[1]) * (t - F[1]), mi * mi>>
            ELSE IF t < F[3] THEN <<1, 1>>
            ELSE IF t < F[4] THEN <<(t - F[3]) * (t - F[3]), mo * mo>>
            ELSE <<0, 1>>

\* models/LightSegment.apply_dimming; t_ms is current_time * 1000.  The
\* result is the rational <<num, den>>.
apply_dimming(s, t_ms) ==
    IF ~s.fade \/ Len(s.dimmer_time) < 5 THEN <<1, 1>>
    ELSE IF s.dimmer_time[5] = 0 THEN <<1, 1>>
    ELSE LET F == s.dimmer_time
             t == t_ms % F[5]
             mi == Max2(1, F[2] - F[1])
             mo == Max2(1, F[4] - F[3])
         IN IF t < F[1] THEN <<0, 1>>
            ELSE IF t < F[2] THEN <<(t - F[1]) * (t - F[1]), mi * mi>>
            ELSE IF t < F[3] THEN <<1, 1>>
            ELSE IF t < F[4] THEN <<mo * mo - (t - F[3]) * (t - F[3]), mo * mo>>
            ELSE <<0, 1>>

\* utils.color_utils.interpolate_colors(color1, color2, n/d): channel-wise
\* linear interpolation, truncated to an integer.
interpolate_colors(c1, c2, n, d) ==
    [k \in 1..3 |-> Clamp255(PyInt(c1[k] * d + (c2[k] - c1[k]) * n, d))]

\* utils.color_utils.apply_brightness(color, bn/bd)
apply_brightness(c, b) ==
    [k \in 1..3 |-> Clamp255(PyInt(c[k] * b[1], b[2]))]

\* utils.color_utils.blend_colors([old, new], [w_old, w_new]): weighted mean
\* of the two colours, truncated; the weights are given over a common
\* denominator.
blend_colors(old, new, w_old, w_new) ==
    IF w_old + w_new > 0
    THEN [k \in 1..3 |->
            Clamp255(PyInt(old[k] * w_old + new[k] * w_new, w_old + w_new))]
    ELSE old

\* segment_start with the halving of total_length left out
SegmentStartNoHalf(s) == PyInt(s.current_position, PosDen) - s.total_length

\* segment_start = int(current_position - total_length / 2)
SegmentStart(s) ==
    PyInt(2 * s.current_position - s.total_length * PosDen, 2 * PosDen)

\* models/LightSegment.get_light_data(palette_name, current_time = 0.0)
get_light_data(s, palette_name) ==
    LET brightness == IF s.fade THEN apply_dimming(s, 0) ELSE <<1, 1>>
        segment_start == SegmentStart(s)
        positions == << segment_start,
                        segment_start + s.length[1],
                        segment_start + s.length[1] + s.length[2],
                        segment_start + s.total_length >>
        colors == calculate_rgb(s.color, palette_name)
        palette == PaletteGet(palette_name)
        left_idx == s.gradient_colors[2]
        right_idx == s.gradient_colors[3]
        useGradient == /\ s.gradient
                       /\ s.gradient_colors[1] = 1
                       /\ 0 <= left_idx /\ left_idx < Len(palette)
                       /\ 0 <= right_idx /\ right_idx < Len(palette)
        gcolors == IF useGradient
                   THEN LET l == palette[left_idx + 1]
                            r == palette[right_idx + 1]
                        IN << l, interpolate_colors(l, r, 33, 100),
                              interpolate_colors(l, r, 67, 100), r >>
                   ELSE colors
    IN [segment_id |-> s.segment_ID,
        brightness |-> brightness,
        positions |-> positions,
        colors |-> gcolors,
        transparency |-> s.transparency]

\* The body of the per-LED loop of models/LightEffect.get_led_output: one
\* segment's contribution at led_idx folded into the buffers
\* acc = [colors, transp].
CompositeLed(acc, data, led_idx) ==
    LET p == data.positions
        sub == IF led_idx <= p[2] THEN 1 ELSE IF led_idx <= p[3] THEN 2 ELSE 3
        n == led_idx - p[sub]
        d == Max2(1, p[sub + 1] - p[sub])
        led_color == apply_brightness(
                        interpolate_colors(data.colors[sub], data.colors[sub + 1], n, d),
                        data.brightness)
        current_transparency == data.transparency[sub]
        old == acc.colors[led_idx]
        lt == acc.transp[led_idx]
    IN IF old = BLACK
       THEN [colors |-> [acc.colors EXCEPT ![led_idx] = led_color],
             transp |-> [acc.transp EXCEPT ![led_idx] = current_transparency]]
       ELSE [colors |-> [acc.colors EXCEPT ![led_idx] =
                            blend_colors(old, led_color, lt * OpDen,
                                         current_transparency * (OpDen - lt))],
             transp |-> [acc.transp EXCEPT ![led_idx] =
                            Max2(0, Min2(OpDen,
                                lt + PyInt(current_transparency * (OpDen - lt), OpDen)))]]

RECURSIVE CompositeRange(_, _, _, _)
CompositeRange(acc, data, from, to) ==
    IF from > to THEN acc
    ELSE CompositeRange(CompositeLed(acc, data, from), data, from + 1, to)

\* One iteration of the segment loop of get_led_output.
CompositeSegment(acc, s, palette_name, n_leds) ==
    LET data == get_light_data(s, palette_name)
        start_pos == Max2(0, data.positions[1])
        end_pos == Min2(n_leds - 1, data.positions[4])
    IN IF data.brightness[1] <= 0 THEN acc
       ELSE CompositeRange(acc, data, start_pos, end_pos)

RECURSIVE CompositeAll(_, _, _, _, _)
CompositeAll(acc, segs, order, palette_name, n_leds) ==
    IF order = <<>> THEN acc
    ELSE CompositeAll(CompositeSegment(acc, segs[Head(order)], palette_name, n_leds),
                      segs, Tail(order), palette_name, n_leds)

\* sorted(self.segments.items(), key = id)
SortedSegments(segs) == SortedSeq(DOMAIN segs)

\* models/LightEffect.get_led_output: the buffers (led_colors,
\* led_transparency) after compositing every segment in ascending id order.
get_led_output(segs, palette_name, n_leds) ==
    CompositeAll([colors |-> [i \in 0..(n_leds - 1) |-> BLACK],
                  transp |-> [i \in 0..(n_leds - 1) |-> OpDen]],
                 segs, SortedSegments(segs), palette_name, n_leds)

\* LightEffect.update_all: update_position of every segment.
update_all(variant, segs, f) ==
    [id \in DOMAIN segs |-> update_position(variant, segs[id], f)]

(* ------------------------------- state -------------------------------- *)
VARIABLES
    impl,              \* which package the segments come from: "models" | "core"
    effects,           \* scene.effects / OSCHandler.light_effects: id -> LightEffect
    current_effect_ID, \* scene.current_effect_ID (NoEffect when None)
    effects_order,     \* the keys of the dict scene.effects in insertion order
    scene_ID,          \* scene.scene_ID
    palettes,          \* scene.palettes: name -> sequence of RGB
    scene_palette,     \* scene.current_palette
    color_palettes,    \* OSCHandler.color_palettes: name -> sequence of RGB
    led_colors,        \* the last frame returned by get_led_output
    led_transparency,  \* the compositor's per-LED accumulated opacity of that frame
    ticks,             \* number of scene.update() calls so far
    last,              \* the last operation performed and its arguments
    render_pc,         \* position of the render task inside its tick
    render_queue,      \* segments of the current effect not yet advanced in this tick
    tick_base,         \* the model as it was when the render task began its tick
    osc_queue,         \* per OSC worker thread: the writes its handler has still to apply
    sent,              \* the messages the last handler passed to client.send_message
    simulator,         \* the LEDSimulator: is_playing, fps and its position in run()
    process            \* main(): its arguments, its position, the OSC server, the exit code

vars == << impl, effects, current_effect_ID, effects_order, scene_ID, palettes, scene_palette,
           color_palettes, led_colors, led_transparency, ticks, last,
           render_pc, render_queue, tick_base, osc_queue, sent, simulator, process >>

sceneVars == << current_effect_ID, effects_order, scene_ID, palettes, scene_palette >>

frameVars == << led_colors, led_transparency >>

taskVars == << render_pc, render_queue, tick_base, osc_queue, sent, simulator, process >>

\* LightEffect.__init__ followed by add_segment for each given segment.
NewEffect(id, n_leds, f, segs) ==
    [effect_ID |-> id, led_count |-> n_leds, fps |-> f,
     current_palette |-> "A", segments |-> segs]

(* ------------------------- OSC value decoding ------------------------- *)
\* An OSC argument is tagged with its Python type: a dict carries its keys
\* as the domain of d, a list its items in l, a scalar its value in v.
Dict(d) == [type |-> "dict", d |-> d]

List(l) == [type |-> "list", l |-> l]

Num(v) == [type |-> "num", v |-> v]

\* a str argument: text is what the string holds, as the value json.loads
\* gives for it (NotJson when it is not a JSON document)
Str(text) == [type |-> "str", text |-> text]

NotJson == [type |-> "invalid"]

\* the Python object an argument stands for when it is stored in an attribute
PyValue(value) ==
    IF value.type = "list" THEN value.l
    ELSE IF value.type = "num" THEN value.v
    ELSE value

Has(value, key) == key \in DOMAIN value.d

IsList2(x) == x.type = "list" /\ Len(x.l) = 2

Opt(cond, writes) == IF cond THEN writes ELSE <<>>

\* The update_param calls effect_segment_callback / effect_object_callback
\* make for (param_name, value), in program order, as <<name, value>> pairs.
SegmentWrites(param_name, value) ==
    IF param_name = "color"
    THEN IF value.type = "dict"
         THEN Opt(Has(value, "colors"), << <<"color", value.d.colors>> >>)
              \o Opt(Has(value, "speed"), << <<"move_speed", value.d.speed>> >>)
              \o Opt(Has(value, "gradient"), << <<"gradient", value.d.gradient = 1>> >>)
         ELSE IF value.type = "list" /\ Len(value.l) >= 1
         THEN << <<"color", value.l>> >>
         ELSE <<>>
    ELSE IF param_name = "position"
    THEN IF value.type = "dict"
         THEN Opt(Has(value, "initial_position"),
                  << <<"initial_position", value.d.initial_position>>,
                     <<"current_position", value.d.initial_position * PosDen>> >>)
              \o Opt(Has(value, "speed"), << <<"move_speed", value.d.speed>> >>)
              \o Opt(Has(value, "range") /\ IsList2(value.d.range),
                     << <<"move_range", value.d.range.l>> >>)
              \o Opt(Has(value, "interval"),
                     << <<"position_interval", value.d.interval>> >>)
         ELSE <<>>
    ELSE IF param_name = "span"
    THEN IF value.type = "dict"
         THEN Opt(Has(value, "span"),
                  << <<"length", << value.d.span \div 3, value.d.span \div 3,
                                    value.d.span \div 3 >> >> >>)
              \o Opt(Has(value, "range") /\ IsList2(value.d.range),
                     << <<"span_range", value.d.range.l>> >>)
              \o Opt(Has(value, "speed"), << <<"span_speed", value.d.speed>> >>)
              \o Opt(Has(value, "interval"), << <<"span_interval", value.d.interval>> >>)
              \o Opt(Has(value, "gradient_colors") /\ value.d.gradient_colors.type = "list",
                     << <<"gradient_colors", value.d.gradient_colors.l>> >>)
              \o Opt(Has(value, "fade"), << <<"fade", value.d.fade = 1>> >>)
         ELSE <<>>
    ELSE << <<param_name, PyValue(value)>> >>

RECURSIVE ApplyWrites(_, _, _)
ApplyWrites(variant, s, writes) ==
    IF writes = <<>> THEN s
    ELSE ApplyWrites(variant, update_param(variant, s, Head(writes)[1], Head(writes)[2]),
                     Tail(writes))

\* OSCHandler.effect_segment_callback run to completion: the effects map
\* after the message (unchanged when the effect or segment is unknown).
effect_segment_callback(variant, effs, effect_id, segment_id, param_name, value) ==
    IF effect_id \notin DOMAIN effs THEN effs
    ELSE IF segment_id \notin DOMAIN effs[effect_id].segments THEN effs
    ELSE [effs EXCEPT ![effect_id].segments[segment_id] =
            ApplyWrites(variant, @, SegmentWrites(param_name, value))]

(* --------------------------- scene operations ------------------------- *)
\* None as an effect id (effect ids are positive)
NoEffect == 0

HasCurrentEffect == current_effect_ID \in DOMAIN effects

AllSegments == { <<e, i>> \in (DOMAIN effects) \X (1..8) : i \in DOMAIN effects[e].segments }

SegmentInRange(s) ==
    /\ s.move_range[1] * PosDen <= s.current_position
    /\ s.current_position <= s.move_range[2] * PosDen

\* keeps the explored positions finite
PositionsBounded ==
    \A p \in AllSegments :
        Abs(effects[p[1]].segments[p[2]].current_position) <= MaxPos * PosDen

\* LightScene.update(): advance the current effect by one step.
scene_update(variant, effs, cur) ==
    IF cur \in DOMAIN effs
    THEN [effs EXCEPT ![cur].segments = update_all(variant, @, effs[cur].fps)]
    ELSE effs

\* LightScene.get_led_output(): the current effect's frame, [] when none.
scene_get_led_output(effs, cur) ==
    IF cur \in DOMAIN effs
    THEN get_led_output(effs[cur].segments, effs[cur].current_palette,
                        effs[cur].led_count)
    ELSE [colors |-> <<>>, transp |-> <<>>]

DefaultDimmer == <<0, 100, 900, 1000, 1000>>

Opaque == <<OpDen, OpDen, OpDen, OpDen>>

\* The frame is the return value of the last get_led_output call; after any
\* other operation no returned frame is current.
NoFrame == led_colors' = <<>> /\ led_transparency' = <<>>

\* no LEDSimulator has been constructed
NoSimulator == [pc |-> "none", is_playing |-> FALSE, fps |-> 0]

\* main() has built the scene, started the OSC server and entered its loop
Running == [pc |-> "loop", server |-> "serving", exit_code |-> -1]

IdleTasks ==
    /\ render_pc = "idle"
    /\ render_queue = <<>>
    /\ tick_base = [segs |-> <<>>, osc_idle |-> TRUE]
    /\ osc_queue = <<>>
    /\ sent = <<>>
    /\ simulator = NoSimulator
    /\ process = Running

SceneDefaults ==
    /\ current_effect_ID = 1
    /\ effects_order = SortedSeq(DOMAIN effects)
    /\ scene_ID = 1
    /\ palettes = DEFAULT_COLOR_PALETTES
    /\ scene_palette = "A"
    /\ color_palettes = DEFAULT_COLOR_PALETTES
    /\ led_colors = <<>>
    /\ led_transparency = <<>>
    /\ ticks = 0
    /\ last = [op |-> "init"]

\* One iteration of the headless loop of main(): scene.update().
Update ==
    /\ ticks < MaxTicks
    /\ PositionsBounded
    /\ effects' = scene_update(impl, effects, current_effect_ID)
    /\ ticks' = ticks + 1
    /\ last' = [op |-> "update"]
    /\ NoFrame
    /\ UNCHANGED << impl, sceneVars, color_palettes, taskVars >>

\* scene.get_led_output() called by a frame consumer.
Render ==
    /\ impl = "models"
    /\ LET out == scene_get_led_output(effects, current_effect_ID)
       IN /\ led_colors' = out.colors
          /\ led_transparency' = out.transp
    /\ last' = [op |-> "render"]
    /\ UNCHANGED << impl, effects, sceneVars, color_palettes, ticks, taskVars >>

\* An /effect/E/segment/S/param datagram handled to completion.
OscSegment(effect_id, segment_id, param_name, value) ==
    /\ effects' = effect_segment_callback(impl, effects, effect_id, segment_id,
                                          param_name, value)
    /\ last' = [op |-> "osc_segment", effect_id |-> effect_id,
                segment_id |-> segment_id, param_name |-> param_name]
    /\ NoFrame
    /\ UNCHANGED << impl, sceneVars, color_palettes, ticks, taskVars >>

(* ------------------------------ motion -------------------------------- *)
MotionPositions == {0, 3, 5, 9}

MotionSpeeds == {-30, -5, 0, 5, 30}

MotionRanges == { <<0, 9>>, <<2, 4>> }

MotionFps == {1, 10}

PositionMsgs ==
    { Dict([initial_position |-> 3, speed |-> 5, range |-> List(<<2, 4>>)]),
      Dict([range |-> List(<<0, 9>>)]),
      Dict([speed |-> -30]),
      Dict([initial_position |-> 5, interval |-> 10]) }

InitMotion ==
    /\ impl \in {"models", "core"}
    /\ \E ip \in MotionPositions, sp \in MotionSpeeds, r \in MotionRanges,
          refl \in BOOLEAN, f \in MotionFps :
          /\ r[1] <= ip /\ ip <= r[2]
          /\ ExactStep(sp, f)
          /\ effects = (1 :> NewEffect(1, 10, f,
                            (1 :> NewSegment(1, <<1, 1, 1, 1>>, Opaque, <<2, 2, 2>>,
                                             sp, r, ip, refl, DefaultDimmer))))
    /\ SceneDefaults
    /\ IdleTasks

OscPosition == \E v \in PositionMsgs : OscSegment(1, 1, "position", v)

OscMoveSpeed == \E sp \in MotionSpeeds : OscSegment(1, 1, "move_speed", Num(sp))

NextMotion == Update \/ OscPosition \/ OscMoveSpeed

SpecMotion == InitMotion /\ [][NextMotion]_vars

\* C1: immediately after every update_position step each segment of the
\* advanced effect lies inside its move_range, in reflect and in wrap mode,
\* whatever the step size.
C1_PositionInRangeAfterStep ==
    (last.op = "update" /\ HasCurrentEffect) =>
        \A i \in DOMAIN effects[current_effect_ID].segments :
            SegmentInRange(effects[current_effect_ID].segments[i])

(* ------------------------------ palettes ------------------------------ *)
\* Resolution of the numbers carried by a /palette/X list: an entry v of the
\* flat list stands for the value v / ChanDen.
ChanDen == 2

\* the decoding loop with the clamp to 0..255 left out
DecodePaletteNoClamp(colors_flat) ==
    [i \in 1..(Len(colors_flat) \div 3) |->
        [k \in 1..3 |-> PyInt(colors_flat[3 * (i - 1) + k], ChanDen)]]

\* the loop of palette_callback: groups of three, int(), clamped to 0..255
DecodePalette(colors_flat) ==
    [i \in 1..(Len(colors_flat) \div 3) |->
        [k \in 1..3 |-> Clamp255(PyInt(colors_flat[3 * (i - 1) + k], ChanDen))]]

\* re.match(r"/palette/([A-E])", address) and the list / length test
PaletteMsgAccepted(palette_id, value) ==
    /\ palette_id \in {"A", "B", "C", "D", "E"}
    /\ value.type = "list"
    /\ Len(value.l) % 3 = 0

\* OSCHandler.palette_callback: <<color_palettes, light_effects>> afterwards.
palette_callback(cp, effs, palette_id, value) ==
    IF ~PaletteMsgAccepted(palette_id, value) THEN <<cp, effs>>
    ELSE << [cp EXCEPT ![palette_id] = DecodePalette(value.l)],
            [e \in DOMAIN effs |-> [effs[e] EXCEPT !.current_palette = palette_id]] >>

\* The /palette/X part of the /request/init reply: every palette flattened.
RECURSIVE Flatten(_)
Flatten(colors) == IF colors = <<>> THEN <<>> ELSE Head(colors) \o Flatten(Tail(colors))

init_callback_palettes(cp) == [n \in DOMAIN cp |-> Flatten(cp[n])]

\* A /palette/X datagram handled to completion.
OscPalette(palette_id, value) ==
    /\ LET r == palette_callback(color_palettes, effects, palette_id, value)
       IN /\ color_palettes' = r[1]
          /\ effects' = r[2]
    /\ last' = [op |-> "osc_palette", palette_id |-> palette_id, value |-> value]
    /\ NoFrame
    /\ UNCHANGED << impl, sceneVars, ticks, taskVars >>

Scaled(flat) == [i \in 1..Len(flat) |-> flat[i] * ChanDen]

\* the S4 message: /palette/A [0,0,0, 1,2,3, 4,5,6, 7,8,9, 10,11,12, 13,14,15]
S4Msg == List(Scaled(<<0, 0, 0, 1, 2, 3, 4, 5, 6, 7, 8, 9, 10, 11, 12, 13, 14, 15>>))

\* /palette/X [0,0,0, 10,10,10]
GreyMsg == List(Scaled(<<0, 0, 0, 10, 10, 10>>))

(* ----------------------------- rendering ------------------------------ *)
Half == <<OpDen \div 2, OpDen \div 2, OpDen \div 2, OpDen \div 2>>

Over == <<2 * OpDen, 2 * OpDen, 2 * OpDen, 2 * OpDen>>

RenderSegments1 ==
    { NewSegment(1, c, t, <<2, 2, 2>>, sp, <<0, 9>>, 5, TRUE, DefaultDimmer) :
        c \in { <<1, 1, 1, 1>>, <<0, 3, 1, 2>> }, t \in {Opaque}, sp \in {0, 10} }

RenderSegments2 ==
    { NewSegment(2, c, t, g[1], 0, <<0, 9>>, g[2], TRUE, DefaultDimmer) :
        c \in { <<3, 3, 3, 3>>, <<2, 2, 2, 2>> }, t \in {Opaque, Half},
        g \in { << <<2, 2, 2>>, 5 >>, << <<1, 1, 1>>, 4 >> } }

InitRender ==
    /\ impl = "models"
    /\ \E s1 \in RenderSegments1 :
          \/ effects = (1 :> NewEffect(1, 10, 10, (1 :> s1)))
          \/ \E s2 \in RenderSegments2 :
                effects = (1 :> NewEffect(1, 10, 10, (1 :> s1) @@ (2 :> s2)))
    /\ SceneDefaults
    /\ IdleTasks

OscTransparency ==
    \E i \in {1, 2} : OscSegment(1, i, "transparency", List(Over))

OscColor ==
    \E v \in { Dict([colors |-> <<1, 1, 1, 1>>, gradient |-> 0]), Dict([gradient |-> 1]) } :
        OscSegment(1, 1, "color", v)

OscSpan ==
    \E v \in { Dict([span |-> 3]),
               Dict([gradient_colors |-> List(<<1, 2, 3>>), fade |-> 1]) } :
        OscSegment(1, 1, "span", v)

OscPaletteRender ==
    \E x \in {"A", "B"}, v \in {GreyMsg, List(Scaled(<<300, -5, 0, 1>>))} : OscPalette(x, v)

NextRender == Update \/ Render \/ OscTransparency \/ OscColor \/ OscSpan \/ OscPaletteRender

SpecRender == InitRender /\ [][NextRender]_vars

(* ------------------------ rendering properties ------------------------ *)
CurrentEffect == effects[current_effect_ID]

\* the LEDs the segment loop of get_led_output visits for segment s
Covered(s, n_leds) ==
    { p \in 0..(n_leds - 1) : SegmentStart(s) <= p /\ p <= SegmentStart(s) + s.total_length }

\* a segment as constructed, neither faded nor gradient-coloured
Plain(s) == ~s.fade /\ ~s.gradient /\ s.total_length = SumSeq(s.length)

Rendered == last.op = "render" /\ HasCurrentEffect

\* the colours segment s alone puts on the strip
Alone(s, e) == get_led_output((s.segment_ID :> s), e.current_palette, e.led_count).colors

IsS3 ==
    /\ HasCurrentEffect
    /\ DOMAIN CurrentEffect.segments = {1, 2}
    /\ CurrentEffect.current_palette = "A"
    /\ LET a == CurrentEffect.segments[1]
           b == CurrentEffect.segments[2]
       IN /\ Plain(a) /\ Plain(b)
          /\ a.color = <<1, 1, 1, 1>> /\ a.transparency = Opaque
          /\ b.color = <<3, 3, 3, 3>> /\ b.transparency = Half
          /\ Covered(a, CurrentEffect.led_count) \subseteq Covered(b, CurrentEffect.led_count)

\* C4 (scenario S3): red opaque segment 1 under blue half-transparent segment
\* 2: every LED covered by both is rendered (127, 0, 127) with accumulated
\* opacity 1.0.
C4_S3Blend ==
    (Rendered /\ IsS3) =>
        \A p \in Covered(CurrentEffect.segments[1], CurrentEffect.led_count) :
            /\ led_colors[p] = <<127, 0, 127>>
            /\ led_transparency[p] = OpDen

AllOpaque(e) ==
    \A i \in DOMAIN e.segments :
        /\ e.segments[i].transparency = Opaque
        /\ ~e.segments[i].fade

Covering(e, p) == { i \in DOMAIN e.segments : p \in Covered(e.segments[i], e.led_count) }

SetMax(S) == CHOOSE x \in S : \A y \in S : y <= x

\* C5: with every segment fully opaque (and brightness 1) the colour of an
\* LED is the colour the highest-id segment covering it contributes there.
C5_TopmostOpaqueWins ==
    (Rendered /\ AllOpaque(CurrentEffect)) =>
        \A p \in 0..(CurrentEffect.led_count - 1) :
            Covering(CurrentEffect, p) # {} =>
                led_colors[p] =
                    Alone(CurrentEffect.segments[SetMax(Covering(CurrentEffect, p))],
                          CurrentEffect)[p]

\* C6: every frame has led_count entries, every channel is in 0..255 and the
\* accumulated opacity of every LED is in [0, 1].
C6_FrameWellFormed ==
    Rendered =>
        /\ DOMAIN led_colors = 0..(CurrentEffect.led_count - 1)
        /\ \A p \in DOMAIN led_colors :
              /\ \A k \in 1..3 : led_colors[p][k] \in 0..255
              /\ 0 <= led_transparency[p] /\ led_transparency[p] <= OpDen

\* scenario S1: the effect and its single segment as constructed
IsS1 ==
    /\ HasCurrentEffect
    /\ CurrentEffect.led_count = 10 /\ CurrentEffect.fps = 10
    /\ CurrentEffect.current_palette = "A"
    /\ DOMAIN CurrentEffect.segments = {1}
    /\ LET a == CurrentEffect.segments[1]
       IN /\ Plain(a)
          /\ a.color = <<1, 1, 1, 1>> /\ a.transparency = Opaque
          /\ a.length = <<2, 2, 2>> /\ a.move_speed = 0 /\ a.move_range = <<0, 9>>
          /\ a.initial_position = 5 /\ a.current_position = 5 * PosDen

\* C7 (scenario S1): after one update tick the frame is (255,0,0) at LEDs
\* 2..8 and (0,0,0) at every other LED.
C7_S1Frame ==
    (Rendered /\ IsS1 /\ ticks >= 1) =>
        led_colors = [p \in 0..9 |-> IF 2 <= p /\ p <= 8 THEN RED ELSE BLACK]

W7_S1Rendered == Rendered /\ IsS1 /\ ticks >= 1 /\ led_colors[2] = RED /\ led_colors[9] = BLACK

\* C8: a frame rendered with current palette A shows, at the LEDs covered
\* only by an opaque plain segment of colour index 1, the RGB value that the
\* last /palette/A write put at index 1.
C8_PaletteWriteRendered ==
    (Rendered /\ CurrentEffect.current_palette = "A" /\ Len(color_palettes["A"]) >= 2) =>
        \A i \in DOMAIN CurrentEffect.segments :
            LET a == CurrentEffect.segments[i]
            IN (Plain(a) /\ a.color = <<1, 1, 1, 1>> /\ a.transparency = Opaque) =>
                  \A p \in Covered(a, CurrentEffect.led_count) :
                      Covering(CurrentEffect, p) = {i} =>
                          led_colors[p] = color_palettes["A"][2]

(* ------------------------- scene palette state ------------------------ *)
\* LightScene.set_palette: <<scene.current_palette, effects>> afterwards
set_palette(pals, cur, effs, palette_id) ==
    IF palette_id \in DOMAIN pals
    THEN << palette_id,
            [e \in DOMAIN effs |-> [effs[e] EXCEPT !.current_palette = palette_id]] >>
    ELSE << cur, effs >>

\* LightScene.update_palette: <<palettes, scene.current_palette, effects>>
update_palette(pals, cur, effs, palette_id, colors) ==
    IF palette_id \in DOMAIN pals
    THEN LET pals1 == [pals EXCEPT ![palette_id] = colors]
             r == IF palette_id = cur THEN set_palette(pals1, cur, effs, palette_id)
                  ELSE << cur, effs >>
         IN << pals1, r[1], r[2] >>
    ELSE << pals, cur, effs >>

\* LightScene.load_palettes_from_json on the parsed document data
load_palettes_from_json(pals, cur, effs, data) ==
    LET pals1 == IF "palettes" \in DOMAIN data THEN data.palettes ELSE pals
        r == IF "current_palette" \in DOMAIN data
             THEN set_palette(pals1, cur, effs, data.current_palette)
             ELSE << cur, effs >>
    IN << pals1, r[1], r[2] >>

\* the LightSegment built by load_from_json from one segment entry
LoadSegment(sd) ==
    LET s0 == NewSegment(sd.segment_ID, sd.color, sd.transparency, sd.length,
                         sd.move_speed, sd.move_range, sd.initial_position,
                         sd.is_edge_reflect, sd.dimmer_time)
        s1 == IF "current_position" \in DOMAIN sd
              THEN [s0 EXCEPT !.current_position = sd.current_position] ELSE s0
        s2 == IF "gradient" \in DOMAIN sd THEN [s1 EXCEPT !.gradient = sd.gradient] ELSE s1
        s3 == IF "fade" \in DOMAIN sd THEN [s2 EXCEPT !.fade = sd.fade] ELSE s2
    IN IF "gradient_colors" \in DOMAIN sd
       THEN [s3 EXCEPT !.gradient_colors = sd.gradient_colors] ELSE s3

\* the segments dict built from the <<id, entry>> items of a document
RECURSIVE LoadSegments(_)
LoadSegments(items) ==
    IF items = <<>> THEN <<>>
    ELSE LET n == Len(items)
         IN (items[n][1] :> LoadSegment(items[n][2])) @@ LoadSegments(SubSeq(items, 1, n - 1))

\* the loop over data["effects"]: add_effect of every effect, in document
\* order; sc = [effects, current_effect_ID] of the scene under construction
RECURSIVE LoadEffects(_, _, _)
LoadEffects(sc, items, cur_palette) ==
    IF items = <<>> THEN sc
    ELSE LET id == Head(items)[1]
             ed == Head(items)[2]
             eff == [NewEffect(ed.effect_ID, ed.led_count, ed.fps, LoadSegments(ed.segments))
                        EXCEPT !.current_palette = cur_palette]
         IN LoadEffects([effects |-> (id :> eff) @@ sc.effects,
                         current_effect_ID |-> IF sc.current_effect_ID = NoEffect THEN id
                                               ELSE sc.current_effect_ID],
                        Tail(items), cur_palette)

\* the keys of scene.effects, in insertion order, after the loop over the
\* <<id, entry>> items of data["effects"]
RECURSIVE LoadOrder(_)
LoadOrder(items) ==
    IF items = <<>> THEN <<>>
    ELSE LET n == Len(items)
             before == LoadOrder(SubSeq(items, 1, n - 1))
         IN IF \E i \in 1..(n - 1) : items[i][1] = items[n][1] THEN before
            ELSE Append(before, items[n][1])

\* LightScene.load_from_json on the parsed document data (JSON null is NoEffect)
load_from_json(data) ==
    LET cur_palette == IF "current_palette" \in DOMAIN data THEN data.current_palette ELSE "A"
        pals == IF "palettes" \in DOMAIN data THEN data.palettes ELSE DEFAULT_COLOR_PALETTES
        sc == LoadEffects([effects |-> <<>>, current_effect_ID |-> NoEffect],
                          data.effects, cur_palette)
    IN [effects |-> sc.effects,
        current_effect_ID |-> IF "current_effect_ID" \in DOMAIN data
                                 /\ data.current_effect_ID # NoEffect
                              THEN data.current_effect_ID ELSE sc.current_effect_ID,
        palettes |-> pals,
        scene_palette |-> cur_palette]

ScenePaletteUpdate(palette_id, colors) ==
    /\ LET r == update_palette(palettes, scene_palette, effects, palette_id, colors)
       IN /\ palettes' = r[1]
          /\ scene_palette' = r[2]
          /\ effects' = r[3]
    /\ last' = [op |-> "update_palette", palette_id |-> palette_id]
    /\ NoFrame
    /\ UNCHANGED << impl, current_effect_ID, effects_order, scene_ID, color_palettes, ticks,
                    taskVars >>

SceneSetPalette(palette_id) ==
    /\ LET r == set_palette(palettes, scene_palette, effects, palette_id)
       IN /\ scene_palette' = r[1]
          /\ effects' = r[2]
    /\ last' = [op |-> "set_palette", palette_id |-> palette_id]
    /\ NoFrame
    /\ UNCHANGED << impl, current_effect_ID, effects_order, scene_ID, palettes,
                    color_palettes, ticks, taskVars >>

LoadPalettes(data) ==
    /\ LET r == load_palettes_from_json(palettes, scene_palette, effects, data)
       IN /\ palettes' = r[1]
          /\ scene_palette' = r[2]
          /\ effects' = r[3]
    /\ last' = [op |-> "load_palettes_from_json"]
    /\ NoFrame
    /\ UNCHANGED << impl, current_effect_ID, effects_order, scene_ID, color_palettes, ticks,
                    taskVars >>

\* LEDSimulator._load_json_config: the scene is replaced by the loaded one.
LoadScene(data) ==
    /\ LET sc == load_from_json(data)
       IN /\ effects' = sc.effects
          /\ current_effect_ID' = sc.current_effect_ID
          /\ effects_order' = LoadOrder(data.effects)
          /\ scene_ID' = data.scene_ID
          /\ palettes' = sc.palettes
          /\ scene_palette' = sc.scene_palette
    /\ last' = [op |-> "load_from_json"]
    /\ NoFrame
    /\ UNCHANGED << impl, color_palettes, ticks, taskVars >>

(* --------------------------- palette machine -------------------------- *)
PlainSegment(id) ==
    NewSegment(id, <<1, 1, 1, 1>>, Opaque, <<2, 2, 2>>, 0, <<0, 9>>, 5, TRUE, DefaultDimmer)

\* a segment entry as save_to_json writes it
SegmentEntry(id) ==
    [segment_ID |-> id, color |-> <<1, 3, 1, 3>>, transparency |-> Opaque,
     length |-> <<1, 1, 1>>, move_speed |-> 10, move_range |-> <<0, 9>>,
     initial_position |-> 2, current_position |-> 4 * PosDen,
     is_edge_reflect |-> FALSE, dimmer_time |-> DefaultDimmer,
     gradient |-> FALSE, fade |-> TRUE, gradient_colors |-> <<1, 0, 2>>]

EffectEntry(id) ==
    [effect_ID |-> id, led_count |-> 10, fps |-> 10,
     segments |-> << <<1, SegmentEntry(1)>> >>]

\* documents given to load_palettes_from_json
PaletteDocs ==
    { [palettes |-> DEFAULT_COLOR_PALETTES, current_palette |-> "B"],
      [palettes |-> ("A" :> << <<1, 2, 3>> >>)],
      [current_palette |-> "C"] }

\* documents given to load_from_json
SceneDocs ==
    { [scene_ID |-> 1, current_effect_ID |-> 1, current_palette |-> "B",
       palettes |-> DEFAULT_COLOR_PALETTES, effects |-> << <<1, EffectEntry(1)>> >>],
      [scene_ID |-> 1, effects |-> << <<2, EffectEntry(2)>>, <<1, EffectEntry(1)>> >>],
      [scene_ID |-> 2, current_effect_ID |-> NoEffect,
       palettes |-> ("A" :> << RED >>) @@ ("B" :> << BLUE, GREEN >>),
       effects |-> << <<1, EffectEntry(1)>> >>] }

PaletteMsgs ==
    { S4Msg, GreyMsg,
      List(Scaled(<<300, -5, 0, 1>>)),
      List(<<601, -3, 27, 511, 1, 0>>),
      List(<<>>),
      Num(7) }

InitPalette ==
    /\ impl = "models"
    /\ effects \in { (1 :> NewEffect(1, 10, 10, (1 :> PlainSegment(1)))),
                     (1 :> NewEffect(1, 10, 10, (1 :> PlainSegment(1))))
                        @@ (2 :> NewEffect(2, 10, 10, (1 :> PlainSegment(1)))) }
    /\ SceneDefaults
    /\ IdleTasks

OscPaletteAny == \E x \in {"A", "F"}, v \in PaletteMsgs : OscPalette(x, v)

ScenePaletteUpdateAny ==
    \E x \in {"A", "B", "F"} : ScenePaletteUpdate(x, << RED, BLUE >>)

SceneSetPaletteAny == \E x \in {"A", "B", "F"} : SceneSetPalette(x)

LoadPalettesAny == \E d \in PaletteDocs : LoadPalettes(d)

LoadSceneAny == \E d \in SceneDocs : LoadScene(d)

NextPalette ==
    \/ OscPaletteAny
    \/ ScenePaletteUpdateAny
    \/ SceneSetPaletteAny
    \/ LoadPalettesAny
    \/ LoadSceneAny

SpecPalette == InitPalette /\ [][NextPalette]_vars

\* the flat list the reply to /request/init must carry for a palette written
\* from the flat list l: every entry truncated to an integer and clamped
ExpectedReport(l) == [j \in 1..Len(l) |-> Clamp255(PyInt(l[j], ChanDen))]

\* C9: a /palette/X list whose length is not a multiple of 3 changes no
\* palette and no effect; any other list replaces palette X, as reported by
\* /request/init, by len/3 triples in message order with every channel
\* clamped to 0..255 (the S4 message leaves palette A with 6 entries, entry 5
\* being (13,14,15)).
C9_PaletteDecoding ==
    [][ (last'.op = "osc_palette" /\ last'.palette_id \in PaletteNames
            /\ last'.value.type = "list") =>
          LET x == last'.palette_id
              l == last'.value.l
          IN IF Len(l) % 3 # 0
             THEN UNCHANGED << color_palettes, palettes, effects >>
             ELSE /\ Len(color_palettes'[x]) * 3 = Len(l)
                  /\ \A i \in 1..Len(color_palettes'[x]) : Len(color_palettes'[x][i]) = 3
                  /\ init_callback_palettes(color_palettes')[x] = ExpectedReport(l)
                  /\ (last'.value = S4Msg) =>
                        /\ Len(color_palettes'[x]) = 6
                        /\ color_palettes'[x][6] = <<13, 14, 15>> ]_vars

W9_S4PaletteWritten ==
    /\ last.op = "osc_palette" /\ last.palette_id = "A" /\ last.value = S4Msg
    /\ Len(color_palettes["A"]) = 6
    /\ color_palettes["A"][6] = <<13, 14, 15>>

\* C10: the scene's palette map always contains the five names A..E.
C10_FivePalettes == PaletteNames \subseteq DOMAIN palettes

(* ------------------- render task and OSC handler threads ------------- *)
\* ThreadingOSCUDPServer runs every datagram's handler on a thread of its
\* own; MaxWorkers of them can be inside a handler at once.
MaxWorkers == 2

Workers == 1..MaxWorkers

\* A handler thread outside any handler.
NoMessage == [effect_id |-> NoEffect, segment_id |-> 0, todo |-> <<>>, done |-> 0]

\* The handler has made some of its update_param calls and has more to make.
MidMessage(q) == q.done > 0 /\ q.todo # <<>>

ConcMsgs ==
    { <<"position", Dict([initial_position |-> 6, range |-> List(<<5, 9>>)])>>,
      <<"position", Dict([speed |-> 0])>>,
      <<"color", List(<<3, 3, 3, 3>>)>> }

\* The segments of the effect the tick works on, [] when the scene has none.
TickSegments == IF HasCurrentEffect THEN effects[current_effect_ID].segments ELSE <<>>

\* The frame a tick yields from the segments segs of the current effect:
\* update_all followed by get_led_output.
TickFrame(segs) ==
    LET e == effects[current_effect_ID]
    IN get_led_output(update_all(impl, segs, e.fps), e.current_palette, e.led_count).colors

\* The render task enters scene.update() / update_all().
TickBegin ==
    /\ render_pc = "idle"
    /\ ticks < MaxTicks
    /\ render_pc' = IF TickSegments = <<>> THEN "render" ELSE "update"
    /\ render_queue' = SortedSeq(DOMAIN TickSegments)
    /\ tick_base' = [segs |-> TickSegments,
                     osc_idle |-> \A w \in Workers : osc_queue[w] = NoMessage]
    /\ last' = [op |-> "tick_begin"]
    /\ NoFrame
    /\ UNCHANGED << impl, sent, simulator, process, effects, sceneVars, color_palettes, ticks, osc_queue >>

\* One iteration of the loop of update_all: update_position of one segment.
TickUpdateSegment ==
    /\ render_pc = "update"
    /\ render_queue # <<>>
    /\ LET id == Head(render_queue)
       IN effects' = [effects EXCEPT ![current_effect_ID].segments[id] =
                         update_position(impl, @, effects[current_effect_ID].fps)]
    /\ render_queue' = Tail(render_queue)
    /\ render_pc' = IF Tail(render_queue) = <<>> THEN "render" ELSE "update"
    /\ last' = [op |-> "tick_update"]
    /\ NoFrame
    /\ UNCHANGED << impl, sent, simulator, process, sceneVars, color_palettes, ticks, tick_base, osc_queue >>

\* The render task's get_led_output(), which ends the tick.
TickRender ==
    /\ render_pc = "render"
    /\ LET out == scene_get_led_output(effects, current_effect_ID)
       IN /\ led_colors' = out.colors
          /\ led_transparency' = out.transp
    /\ render_pc' = "idle"
    /\ ticks' = ticks + 1
    /\ last' = [op |-> "tick_render"]
    /\ UNCHANGED << impl, sent, simulator, process, effects, sceneVars, color_palettes, render_queue,
                    tick_base, osc_queue >>

\* A datagram arrives: a handler thread decodes the address and the value
\* and finds the segment; its update_param calls are still to be made.
OscReceive(w, effect_id, segment_id, param_name, value) ==
    /\ osc_queue[w] = NoMessage
    /\ effect_id \in DOMAIN effects
    /\ segment_id \in DOMAIN effects[effect_id].segments
    /\ SegmentWrites(param_name, value) # <<>>
    /\ osc_queue' = [osc_queue EXCEPT ![w] =
                        [effect_id |-> effect_id, segment_id |-> segment_id,
                         todo |-> SegmentWrites(param_name, value), done |-> 0]]
    /\ last' = [op |-> "osc_receive", worker |-> w]
    /\ NoFrame
    /\ UNCHANGED << impl, sent, simulator, process, effects, sceneVars, color_palettes, ticks,
                    render_pc, render_queue, tick_base >>

\* The handler thread w makes its next update_param call; after the last
\* one it returns.
OscWrite(w) ==
    /\ osc_queue[w].todo # <<>>
    /\ LET q == osc_queue[w]
           wr == Head(q.todo)
       IN /\ effects' = [effects EXCEPT ![q.effect_id].segments[q.segment_id] =
                            update_param(impl, @, wr[1], wr[2])]
          /\ osc_queue' = [osc_queue EXCEPT ![w] =
                              IF Tail(q.todo) = <<>> THEN NoMessage
                              ELSE [q EXCEPT !.todo = Tail(q.todo), !.done = q.done + 1]]
    /\ last' = [op |-> "osc_write", worker |-> w]
    /\ NoFrame
    /\ UNCHANGED << impl, sent, simulator, process, sceneVars, color_palettes, ticks,
                    render_pc, render_queue, tick_base >>

InitConc ==
    /\ impl = "models"
    /\ effects = (1 :> NewEffect(1, 10, 1,
                       (1 :> NewSegment(1, <<1, 1, 1, 1>>, Opaque, <<1, 1, 1>>,
                                        1, <<0, 9>>, 2, TRUE, DefaultDimmer))))
    /\ SceneDefaults
    /\ render_pc = "idle"
    /\ render_queue = <<>>
    /\ tick_base = [segs |-> <<>>, osc_idle |-> TRUE]
    /\ osc_queue = [w \in Workers |-> NoMessage]
    /\ sent = <<>>
    /\ simulator = NoSimulator
    /\ process = Running

OscReceiveAny == \E w \in Workers, m \in ConcMsgs : OscReceive(w, 1, 1, m[1], m[2])

OscWriteAny == \E w \in Workers : OscWrite(w)

NextConc == TickBegin \/ TickUpdateSegment \/ TickRender \/ OscReceiveAny \/ OscWriteAny

SpecConc == InitConc /\ [][NextConc]_vars

\* C2: a handler thread makes an update_param call only while the render
\* task is outside its tick (not between the start of scene.update() and the
\* end of get_led_output()) and while no other handler thread is part-way
\* through the calls of its own message.
C2_RenderOscExclusive ==
    [][ \A w \in Workers :
          (osc_queue[w].todo # <<>> /\ osc_queue'[w] # osc_queue[w]) =>
             /\ render_pc = "idle"
             /\ \A v \in Workers \ {w} : ~MidMessage(osc_queue[v]) ]_vars

\* C3: the frame a tick returns is the one computed from the model as it
\* was when the tick began (so it shows no write made during the tick), and
\* no handler is part-way through a grouped message when the frame is taken.
C3_FrameFromTickStart ==
    (last.op = "tick_render" /\ HasCurrentEffect) =>
        /\ \A w \in Workers : ~MidMessage(osc_queue[w])
        /\ tick_base.osc_idle => led_colors = TickFrame(tick_base.segs)

(* ---------------------------- scene machine --------------------------- *)
\* the keys of a dict after "del d[key]", in insertion order
RECURSIVE OrderWithout(_, _)
OrderWithout(order, key) ==
    IF order = <<>> THEN <<>>
    ELSE IF Head(order) = key THEN OrderWithout(Tail(order), key)
    ELSE <<Head(order)>> \o OrderWithout(Tail(order), key)

\* the keys of a dict after "d[key] = v", in insertion order
OrderWith(order, key) ==
    IF \E i \in 1..Len(order) : order[i] = key THEN order ELSE Append(order, key)

\* LightScene.add_effect: [effects, order, current_effect_ID] afterwards
add_effect(effs, order, cur, cur_palette, effect_ID, effect) ==
    [effects |-> (effect_ID :> [effect EXCEPT !.current_palette = cur_palette]) @@ effs,
     order |-> OrderWith(order, effect_ID),
     current_effect_ID |-> IF cur = NoEffect THEN effect_ID ELSE cur]

\* LightScene.remove_effect: [effects, order, current_effect_ID] afterwards
remove_effect(effs, order, cur, effect_ID) ==
    IF effect_ID \in DOMAIN effs
    THEN LET order1 == OrderWithout(order, effect_ID)
         IN [effects |-> [e \in (DOMAIN effs) \ {effect_ID} |-> effs[e]],
             order |-> order1,
             current_effect_ID |->
                 IF effect_ID = cur
                 THEN IF order1 # <<>> THEN Head(order1) ELSE NoEffect
                 ELSE cur]
    ELSE [effects |-> effs, order |-> order, current_effect_ID |-> cur]

AddEffect(effect_ID, effect) ==
    /\ LET r == add_effect(effects, effects_order, current_effect_ID, scene_palette,
                           effect_ID, effect)
       IN /\ effects' = r.effects
          /\ effects_order' = r.order
          /\ current_effect_ID' = r.current_effect_ID
    /\ last' = [op |-> "add_effect", effect_ID |-> effect_ID]
    /\ NoFrame
    /\ UNCHANGED << impl, scene_ID, palettes, scene_palette, color_palettes, ticks, taskVars >>

RemoveEffect(effect_ID) ==
    /\ LET r == remove_effect(effects, effects_order, current_effect_ID, effect_ID)
       IN /\ effects' = r.effects
          /\ effects_order' = r.order
          /\ current_effect_ID' = r.current_effect_ID
    /\ last' = [op |-> "remove_effect", effect_ID |-> effect_ID]
    /\ NoFrame
    /\ UNCHANGED << impl, scene_ID, palettes, scene_palette, color_palettes, ticks, taskVars >>

\* effect ids used by the scene machine
MaxEffects == 3

EffectIds == 1..MaxEffects

\* LightScene.__init__: a scene without effects
EmptyScene ==
    /\ effects = <<>>
    /\ effects_order = <<>>
    /\ current_effect_ID = NoEffect
    /\ scene_ID = 1
    /\ palettes = DEFAULT_COLOR_PALETTES
    /\ scene_palette = "A"
    /\ color_palettes = DEFAULT_COLOR_PALETTES
    /\ led_colors = <<>>
    /\ led_transparency = <<>>
    /\ ticks = 0
    /\ last = [op |-> "init"]

InitScene ==
    /\ impl = "models"
    /\ EmptyScene
    /\ IdleTasks

AddEffectAny ==
    \E id \in EffectIds : AddEffect(id, NewEffect(id, 10, 10, (1 :> PlainSegment(1))))

RemoveEffectAny == \E id \in EffectIds : RemoveEffect(id)

OscPaletteScene == \E x \in {"A", "B"} : OscPalette(x, GreyMsg)

NextScene ==
    \/ AddEffectAny
    \/ RemoveEffectAny
    \/ SceneSetPaletteAny
    \/ ScenePaletteUpdateAny
    \/ OscPaletteScene

SpecScene == InitScene /\ [][NextScene]_vars

\* C11: every effect in the scene carries the scene's current palette name.
C11_EffectsFollowScenePalette ==
    \A e \in DOMAIN effects : effects[e].current_palette = scene_palette

\* C12: remove_effect of the current effect makes the numerically lowest
\* remaining effect id current (None when no effect remains); remove_effect
\* of any other id leaves current_effect_ID as it was.
C12_RemovePromotesLowest ==
    [][ (last'.op = "remove_effect") =>
          IF last'.effect_ID = current_effect_ID /\ last'.effect_ID \in DOMAIN effects
          THEN current_effect_ID' = IF DOMAIN effects' = {} THEN NoEffect
                                    ELSE SetMin(DOMAIN effects')
          ELSE current_effect_ID' = current_effect_ID ]_vars

(* ----------------------------- OSC machine ---------------------------- *)
\* An OSC address is the sequence of the parts between its slashes; a part
\* is a run of digits (with its value n) or any other word s.
Word(s) == [kind |-> "word", s |-> s, n |-> 0]

Digits(n) == [kind |-> "digits", s |-> "", n |-> n]

SegmentAddr(E, S, param) == << Word("effect"), Digits(E), Word("segment"), Digits(S), Word(param) >>

ObjectAddr(E, S, param) == << Word("effect"), Digits(E), Word("object"), Digits(S), Word(param) >>

PaletteAddr(X) == << Word("palette"), Word(X) >>

InitAddr == << Word("request"), Word("init") >>

\* r"/effect/(\d+)/segment/(\d+)/(.+)" and r"/effect/(\d+)/object/(\d+)/(.+)"
\* on an address the dispatcher delivered for "/effect/*/<family>/*/*"
FamilyMatch(addr, family) ==
    /\ Len(addr) = 5
    /\ addr[1] = Word("effect")
    /\ addr[2].kind = "digits"
    /\ addr[3] = Word(family)
    /\ addr[4].kind = "digits"

\* config defaults used when an effect or a segment is created on demand
DEFAULT_LED_COUNT == 225

DEFAULT_FPS == 60

DEFAULT_TRANSPARENCY == Opaque

DEFAULT_LENGTH == <<1, 1, 1>>

DEFAULT_MOVE_SPEED == 0

DEFAULT_MOVE_RANGE == <<0, 224>>

DEFAULT_INITIAL_POSITION == 0

DEFAULT_IS_EDGE_REFLECT == TRUE

DEFAULT_DIMMER_TIME == DefaultDimmer

\* the LightSegment effect_object_callback creates for an unknown segment id
DefaultSegment(segment_id) ==
    NewSegment(segment_id, <<0, 1, 2, 3>>, DEFAULT_TRANSPARENCY, DEFAULT_LENGTH,
               DEFAULT_MOVE_SPEED, DEFAULT_MOVE_RANGE, DEFAULT_INITIAL_POSITION,
               DEFAULT_IS_EDGE_REFLECT, DEFAULT_DIMMER_TIME)

\* effect_object_callback with both "creating it" branches left out
effect_object_callback_NoCreate(variant, effs, effect_id, segment_id, param_name, value) ==
    effect_segment_callback(variant, effs, effect_id, segment_id, param_name, value)

\* OSCHandler.effect_object_callback run to completion: the effects map
\* afterwards (a missing effect and a missing segment are created first).
effect_object_callback(variant, effs, effect_id, segment_id, param_name, value) ==
    LET effs1 == IF effect_id \in DOMAIN effs THEN effs
                 ELSE (effect_id :> NewEffect(effect_id, DEFAULT_LED_COUNT, DEFAULT_FPS, <<>>))
                         @@ effs
        segs == effs1[effect_id].segments
        segs1 == IF segment_id \in DOMAIN segs THEN segs
                 ELSE (segment_id :> DefaultSegment(segment_id)) @@ segs
    IN [effs1 EXCEPT ![effect_id].segments =
           [segs1 EXCEPT ![segment_id] =
               ApplyWrites(variant, @, SegmentWrites(param_name, value))]]

\* effect_segment_callback with the "not found" test left out
controllers_segment_NoCheck(variant, effs, addr, args) ==
    effect_object_callback(variant, effs, addr[2].n, addr[4].n, addr[5].s, args[1])

\* controllers: the handler mapped to "/effect/*/segment/*/*", from the
\* pattern match on
controllers_segment(variant, effs, addr, args) ==
    effect_segment_callback(variant, effs, addr[2].n, addr[4].n, addr[5].s, args[1])

\* ---- the reply to /request/init ----
Attr(s, name, default) == IF name \in DOMAIN s THEN s[name] ELSE default

Flag(b) == IF b THEN 1 ELSE 0

ColorReply(seg) ==
    Dict([colors |-> seg.color, speed |-> seg.move_speed, gradient |-> Flag(seg.gradient)])

PositionReply(seg) ==
    Dict([initial_position |-> seg.initial_position, speed |-> seg.move_speed,
          range |-> List(seg.move_range),
          interval |-> Attr(seg, "position_interval", 10)])

SpanReply(seg) ==
    Dict([span |-> SumSeq(seg.length),
          range |-> List(Attr(seg, "span_range", seg.move_range)),
          speed |-> Attr(seg, "span_speed", seg.move_speed),
          interval |-> Attr(seg, "span_interval", 10),
          gradient_colors |-> List(seg.gradient_colors),
          fade |-> Flag(seg.fade)])

Msg(address, value) == [address |-> address, value |-> value]

\* the seven send_message calls init_callback makes for one segment
SegmentReplies(E, S, seg) ==
    << Msg(SegmentAddr(E, S, "color"), ColorReply(seg)),
       Msg(SegmentAddr(E, S, "position"), PositionReply(seg)),
       Msg(SegmentAddr(E, S, "span"), SpanReply(seg)),
       Msg(SegmentAddr(E, S, "transparency"), List(seg.transparency)),
       Msg(ObjectAddr(E, S, "color"), ColorReply(seg)),
       Msg(ObjectAddr(E, S, "position"), PositionReply(seg)),
       Msg(ObjectAddr(E, S, "span"), SpanReply(seg)) >>

RECURSIVE EffectReplies(_, _, _)
EffectReplies(E, segs, ids) ==
    IF ids = <<>> THEN <<>>
    ELSE SegmentReplies(E, Head(ids), segs[Head(ids)]) \o EffectReplies(E, segs, Tail(ids))

RECURSIVE EffectsReplies(_, _)
EffectsReplies(effs, order) ==
    IF order = <<>> THEN <<>>
    ELSE EffectReplies(Head(order), effs[Head(order)].segments,
                       SortedSeq(DOMAIN effs[Head(order)].segments))
         \o EffectsReplies(effs, Tail(order))

PaletteOrder == <<"A", "B", "C", "D", "E">>

RECURSIVE PaletteReplies(_, _)
PaletteReplies(cp, names) ==
    IF names = <<>> THEN <<>>
    ELSE (IF Head(names) \in DOMAIN cp
          THEN << Msg(PaletteAddr(Head(names)), List(init_callback_palettes(cp)[Head(names)])) >>
          ELSE <<>>)
         \o PaletteReplies(cp, Tail(names))

\* OSCHandler.init_callback: the messages passed to client.send_message
init_callback(cp, effs, order, args) ==
    IF args[1] # Num(1) THEN <<>>
    ELSE PaletteReplies(cp, PaletteOrder) \o EffectsReplies(effs, order)

\* ---- controllers.osc_handler: the dispatcher map and its four handlers ----
\* [effects, order, color_palettes, sent] after the datagram (addr, args)
controllers_handle(variant, effs, order, cp, addr, args) ==
    LET same == [effects |-> effs, order |-> order, color_palettes |-> cp, sent |-> <<>>]
    IN IF FamilyMatch(addr, "segment")
       THEN [same EXCEPT !.effects = controllers_segment(variant, effs, addr, args)]
       ELSE IF FamilyMatch(addr, "object")
       THEN [same EXCEPT
               !.effects = effect_object_callback(variant, effs, addr[2].n, addr[4].n,
                                                  addr[5].s, args[1]),
               !.order = OrderWith(order, addr[2].n)]
       ELSE IF Len(addr) = 2 /\ addr[1] = Word("palette")
       THEN LET r == palette_callback(cp, effs, addr[2].s, args[1])
            IN [same EXCEPT !.color_palettes = r[1], !.effects = r[2]]
       ELSE IF addr = InitAddr
       THEN [same EXCEPT !.sent = init_callback(cp, effs, order, args)]
       ELSE same

\* ---- communication.osc_handler: the default handler osc_callback ----
\* OSCHandler._convert_value
convert_value(value) ==
    IF value.type = "str" /\ value.text # NotJson THEN value.text ELSE value

\* LightEffect.update_segment_param
update_segment_param(variant, effect, segment_ID, param_name, value) ==
    IF segment_ID \in DOMAIN effect.segments
    THEN [effect EXCEPT !.segments[segment_ID] = update_param(variant, @, param_name, value)]
    ELSE effect

\* OSCHandler._handle_custom_command: [effects, order] afterwards
handle_custom_command(effs, order, addr, args) ==
    IF Len(addr) >= 2 /\ addr[2] = Word("create")
    THEN IF Len(args) >= 3 /\ args[1].v \notin DOMAIN effs
         THEN [effects |-> (args[1].v :> NewEffect(args[1].v, args[2].v, args[3].v, <<>>)) @@ effs,
               order |-> OrderWith(order, args[1].v)]
         ELSE [effects |-> effs, order |-> order]
    ELSE IF Len(addr) >= 3 /\ addr[3] = Word("clear")
            /\ addr[2].kind = "digits" /\ addr[2].n \in DOMAIN effs
    THEN [effects |-> [effs EXCEPT ![addr[2].n].segments = <<>>], order |-> order]
    ELSE [effects |-> effs, order |-> order]

\* OSCHandler.osc_callback: [effects, order] after the datagram (addr, args)
osc_callback(variant, effs, order, addr, args) ==
    IF FamilyMatch(addr, "segment")
    THEN IF args # <<>> /\ addr[2].n \in DOMAIN effs
         THEN [effects |-> [effs EXCEPT ![addr[2].n] =
                              update_segment_param(variant, @, addr[4].n, addr[5].s,
                                                   PyValue(convert_value(args[1])))],
               order |-> order]
         ELSE [effects |-> effs, order |-> order]
    ELSE IF addr # <<>> /\ addr[1] = Word("effect")
    THEN handle_custom_command(effs, order, addr, args)
    ELSE [effects |-> effs, order |-> order]

\* ---- the machine ----
\* A datagram handled by controllers.osc_handler.OSCHandler (the handler
\* main.py starts, over the models package).
OscControllers(addr, args) ==
    /\ impl = "models"
    /\ LET r == controllers_handle(impl, effects, effects_order, color_palettes, addr, args)
       IN /\ effects' = r.effects
          /\ effects_order' = r.order
          /\ color_palettes' = r.color_palettes
          /\ sent' = r.sent
    /\ last' = [op |-> "osc", address |-> addr, args |-> args]
    /\ NoFrame
    /\ UNCHANGED << impl, current_effect_ID, scene_ID, palettes, scene_palette, ticks,
                    render_pc, render_queue, tick_base, osc_queue,
                    simulator, process >>

\* A datagram handled by communication.osc_handler.OSCHandler (the handler
\* of the gui package, over the core package).
OscCommunication(addr, args) ==
    /\ impl = "core"
    /\ LET r == osc_callback(impl, effects, effects_order, addr, args)
       IN /\ effects' = r.effects
          /\ effects_order' = r.order
    /\ sent' = <<>>
    /\ last' = [op |-> "osc", address |-> addr, args |-> args]
    /\ NoFrame
    /\ UNCHANGED << impl, current_effect_ID, scene_ID, palettes, scene_palette,
                    color_palettes, ticks, render_pc, render_queue, tick_base, osc_queue,
                    simulator, process >>

S5Msg == << ObjectAddr(7, 3, "color"), << Dict([colors |-> <<1, 2, 3, 0>>]) >> >>

UnknownAddr == << Word("foo"), Word("bar") >>

CreateMsg == << << Word("effect"), Word("create") >>, << Num(5), Num(10), Num(30) >> >>

PositionDict == Dict([initial_position |-> 3, range |-> List(<<2, 8>>)])

ControllerMsgs ==
    { << SegmentAddr(1, 1, "color"), << List(<<2, 4, 6, 0>>) >> >>,
      << SegmentAddr(1, 1, "color"), << Dict([colors |-> <<3, 3, 3, 3>>, speed |-> 5, gradient |-> 1]) >> >>,
      << SegmentAddr(1, 1, "position"), << PositionDict >> >>,
      << SegmentAddr(1, 1, "position"), << Str(PositionDict) >> >>,
      << SegmentAddr(1, 1, "span"), << Dict([span |-> 7, fade |-> 1]) >> >>,
      << SegmentAddr(7, 3, "color"), << List(<<2, 4, 6, 0>>) >> >>,
      << SegmentAddr(1, 2, "position"), << PositionDict >> >>,
      S5Msg,
      << PaletteAddr("B"), << GreyMsg >> >>,
      << InitAddr, << Num(1) >> >>,
      << InitAddr, << Num(0) >> >>,
      << UnknownAddr, << Num(1) >> >>,
      CreateMsg }

CommunicationMsgs ==
    { << SegmentAddr(1, 1, "color"), << List(<<2, 4, 6, 0>>) >> >>,
      << SegmentAddr(1, 1, "color"), << Str(List(<<0, 0, 1, 1>>)) >> >>,
      << SegmentAddr(1, 1, "position"), << PositionDict >> >>,
      << SegmentAddr(1, 1, "position"), << Str(PositionDict) >> >>,
      << SegmentAddr(1, 1, "move_speed"), << Num(-5) >> >>,
      << SegmentAddr(1, 1, "length"), << List(<<1, 2, 3>>) >> >>,
      << SegmentAddr(7, 3, "color"), << List(<<2, 4, 6, 0>>) >> >>,
      << SegmentAddr(1, 2, "move_speed"), << Num(5) >> >>,
      S5Msg,
      << InitAddr, << Num(1) >> >>,
      << UnknownAddr, << Num(1) >> >>,
      << << Word("effect"), Digits(1), Word("clear") >>, <<>> >>,
      CreateMsg }

OscSegments ==
    { PlainSegment(1),
      NewSegment(1, <<1, 2, 3, 0>>, Opaque, <<1, 2, 3>>, 5, <<0, 9>>, 4, FALSE, DefaultDimmer) }

InitOsc ==
    /\ impl \in {"models", "core"}
    /\ \E seg \in OscSegments : effects = (1 :> NewEffect(1, 10, 10, (1 :> seg)))
    /\ SceneDefaults
    /\ IdleTasks

\* the messages of a reply that address a segment (either family)
RECURSIVE SegmentMessages(_)
SegmentMessages(msgs) ==
    IF msgs = <<>> THEN <<>>
    ELSE (IF Len(Head(msgs).address) = 5 THEN << Head(msgs) >> ELSE <<>>)
         \o SegmentMessages(Tail(msgs))

\* the effects map after the handlers have been given msgs, one by one
RECURSIVE FeedAll(_, _, _, _, _)
FeedAll(variant, effs, order, cp, msgs) ==
    IF msgs = <<>> THEN effs
    ELSE FeedAll(variant,
                 controllers_handle(variant, effs, order, cp, Head(msgs).address,
                                    << Head(msgs).value >>).effects,
                 order, cp, Tail(msgs))

\* A client asks for the state with /request/init 1 and sends the segment
\* messages of the reply back unchanged.
OscFeedback ==
    /\ impl = "models"
    /\ LET reply == init_callback(color_palettes, effects, effects_order, << Num(1) >>)
       IN /\ sent' = <<>>
          /\ effects' = FeedAll(impl, effects, effects_order, color_palettes,
                                SegmentMessages(reply))
    /\ last' = [op |-> "feedback"]
    /\ NoFrame
    /\ UNCHANGED << impl, sceneVars, color_palettes, ticks,
                    render_pc, render_queue, tick_base, osc_queue,
                    simulator, process >>

OscControllersAny == \E m \in ControllerMsgs : OscControllers(m[1], m[2])

OscCommunicationAny == \E m \in CommunicationMsgs : OscCommunication(m[1], m[2])

NextOsc == OscControllersAny \/ OscCommunicationAny \/ OscFeedback

SpecOsc == InitOsc /\ [][NextOsc]_vars

(* --------------------------- OSC properties --------------------------- *)
LastIsOsc == last.op = "osc"

\* the segment the last datagram addressed, in the effects map effs
Target(effs) == effs[last.address[2].n].segments[last.address[4].n]

TargetExists(effs) ==
    /\ last.address[2].n \in DOMAIN effs
    /\ last.address[4].n \in DOMAIN effs[last.address[2].n].segments

\* attributes a created segment takes from the defaults whatever is written
CreationAttrs ==
    {"segment_ID", "transparency", "length", "move_range", "initial_position",
     "current_position", "is_edge_reflect", "dimmer_time", "fade", "gradient_colors"}

C14_UnknownTargetDiscarded ==
    [][ ( /\ last'.op = "osc"
          /\ FamilyMatch(last'.address, "segment")
          /\ \/ last'.address[2].n \notin DOMAIN effects
             \/ last'.address[4].n \notin DOMAIN effects[last'.address[2].n].segments ) =>
        UNCHANGED << effects, effects_order >> ]_vars

W14_UnknownSegmentDiscarded ==
    /\ LastIsOsc
    /\ last.address = SegmentAddr(1, 2, "position")
    /\ 1 \in DOMAIN effects
    /\ 2 \notin DOMAIN effects[1].segments

\* C15: /effect/E/segment/S/color with a list v for an existing segment
\* leaves color = v and every other attribute but the RGB cache as it was.
C15_ColorListWrite ==
    [][ ( /\ last'.op = "osc"
          /\ FamilyMatch(last'.address, "segment")
          /\ last'.address[5] = Word("color")
          /\ last'.args # <<>>
          /\ last'.args[1].type = "list"
          /\ Len(last'.args[1].l) >= 1
          /\ last'.address[2].n \in DOMAIN effects
          /\ last'.address[4].n \in DOMAIN effects[last'.address[2].n].segments ) =>
        LET old == effects[last'.address[2].n].segments[last'.address[4].n]
            new == effects'[last'.address[2].n].segments[last'.address[4].n]
        IN /\ new.color = last'.args[1].l
           /\ DOMAIN new = DOMAIN old
           /\ \A a \in (DOMAIN old) \ {"color", "rgb_color"} : new[a] = old[a] ]_vars

W15_ColorListWritten ==
    /\ LastIsOsc
    /\ last.address = SegmentAddr(1, 1, "color")
    /\ last.args = << List(<<2, 4, 6, 0>>) >>
    /\ TargetExists(effects)
    /\ Target(effects).color = <<2, 4, 6, 0>>

\* C16: a grouped color, position or span update that arrives as a JSON
\* string leaves the segment as the per-key updates of the same dict do.
C16_JsonStringAsDict ==
    [][ ( /\ last'.op = "osc"
          /\ FamilyMatch(last'.address, "segment")
          /\ last'.address[5].s \in {"color", "position", "span"}
          /\ last'.args # <<>>
          /\ last'.args[1].type = "str"
          /\ last'.args[1].text.type = "dict"
          /\ last'.address[2].n \in DOMAIN effects
          /\ last'.address[4].n \in DOMAIN effects[last'.address[2].n].segments ) =>
        effects'[last'.address[2].n].segments[last'.address[4].n]
          = ApplyWrites(impl, effects[last'.address[2].n].segments[last'.address[4].n],
                        SegmentWrites(last'.address[5].s, last'.args[1].text)) ]_vars

\* the four recognised address families
Recognised(addr) ==
    \/ FamilyMatch(addr, "segment")
    \/ FamilyMatch(addr, "object")
    \/ Len(addr) = 2 /\ addr[1] = Word("palette") /\ addr[2].s \in PaletteNames
    \/ addr = InitAddr

\* C17: a message whose address is in none of the recognised families
\* leaves the effects, their segments and the palettes unchanged.
C17_UnknownAddressIgnored ==
    [][ (last'.op = "osc" /\ ~Recognised(last'.address)) =>
        UNCHANGED << effects, effects_order, color_palettes, palettes >> ]_vars

SentTo(addr) == \E i \in 1..Len(sent) : sent[i].address = addr

ReplyParams == {"color", "position", "span", "transparency"}

\* C18: the reply to /request/init 1 is one /palette/X per palette and, per
\* segment, color, position, span and transparency under both /segment/ and
\* /object/ (eight messages); any other argument sends nothing.
C18_InitReply ==
    (LastIsOsc /\ impl = "models" /\ last.address = InitAddr) =>
        IF last.args[1] = Num(1)
        THEN /\ \A X \in DOMAIN color_palettes : SentTo(PaletteAddr(X))
             /\ \A p \in AllSegments : \A param \in ReplyParams :
                   /\ SentTo(SegmentAddr(p[1], p[2], param))
                   /\ SentTo(ObjectAddr(p[1], p[2], param))
             /\ Len(sent) = Cardinality(DOMAIN color_palettes) + 8 * Cardinality(AllSegments)
        ELSE sent = <<>>

\* attributes the reply payloads carry
CarriedAttrs ==
    {"color", "move_speed", "gradient", "initial_position", "move_range", "length",
     "gradient_colors", "fade", "transparency"}

\* C19: sending the segment messages of an init reply back to the handlers
\* leaves every attribute they carry unchanged.
C19_ReplyInvertsWrites ==
    [][ (last'.op = "feedback") =>
        /\ DOMAIN effects' = DOMAIN effects
        /\ \A E \in DOMAIN effects :
              /\ DOMAIN effects'[E].segments = DOMAIN effects[E].segments
              /\ \A S \in DOMAIN effects[E].segments : \A a \in CarriedAttrs :
                    effects'[E].segments[S][a] = effects[E].segments[S][a] ]_vars

(* --------------------------- JSON round trip -------------------------- *)
\* the entry save_to_json writes for one segment
SaveSegment(s) ==
    [segment_ID |-> s.segment_ID, color |-> s.color, transparency |-> s.transparency,
     length |-> s.length, move_speed |-> s.move_speed, move_range |-> s.move_range,
     initial_position |-> s.initial_position, current_position |-> s.current_position,
     is_edge_reflect |-> s.is_edge_reflect, dimmer_time |-> s.dimmer_time,
     gradient |-> s.gradient, fade |-> s.fade, gradient_colors |-> s.gradient_colors]

\* the entry save_to_json writes for one effect; the segments as <<id, entry>>
\* items (json.dump writes the int keys as strings, load_from_json reads them
\* back with int())
SaveEffect(e) ==
    [effect_ID |-> e.effect_ID, led_count |-> e.led_count, fps |-> e.fps,
     segments |-> [i \in 1..Cardinality(DOMAIN e.segments) |->
                     << SortedSeq(DOMAIN e.segments)[i],
                        SaveSegment(e.segments[SortedSeq(DOMAIN e.segments)[i]]) >>]]

\* LightScene.save_to_json: the document written (None is written as null)
save_to_json(sid, effs, order, cur, cur_palette, pals) ==
    [scene_ID |-> sid,
     current_effect_ID |-> cur,
     current_palette |-> cur_palette,
     palettes |-> pals,
     effects |-> [i \in 1..Len(order) |-> << order[i], SaveEffect(effs[order[i]]) >>]]

SavedAttrs ==
    {"segment_ID", "color", "transparency", "length", "move_speed", "move_range",
     "initial_position", "current_position", "is_edge_reflect", "dimmer_time",
     "gradient", "fade", "gradient_colors"}

\* C20: loading the document save_to_json writes for the scene gives the
\* scene back: scene_ID, current_effect_ID, current_palette, palettes, the
\* effect ids with effect_ID, led_count, fps and cached palette name, and the
\* thirteen saved attributes of every segment.
C20_SaveLoadRoundTrip ==
    LET doc == save_to_json(scene_ID, effects, effects_order, current_effect_ID,
                            scene_palette, palettes)
        sc == load_from_json(doc)
    IN /\ doc.scene_ID = scene_ID
       /\ sc.current_effect_ID = current_effect_ID
       /\ sc.scene_palette = scene_palette
       /\ sc.palettes = palettes
       /\ DOMAIN sc.effects = DOMAIN effects
       /\ \A e \in DOMAIN effects :
             /\ sc.effects[e].effect_ID = effects[e].effect_ID
             /\ sc.effects[e].led_count = effects[e].led_count
             /\ sc.effects[e].fps = effects[e].fps
             /\ sc.effects[e].current_palette = effects[e].current_palette
             /\ DOMAIN sc.effects[e].segments = DOMAIN effects[e].segments
             /\ \A s \in DOMAIN effects[e].segments : \A a \in SavedAttrs :
                   sc.effects[e].segments[s][a] = effects[e].segments[s][a]
(* ---------------------------- headless loop --------------------------- *)
\* number of iterations of the headless loop that are explored
MaxRun == 10

RunPositions == {2, 5, 9}

RunSpeeds == {-5, 10, 30}

RunRanges == { <<0, 9>>, <<2, 4>> }

\* One iteration of `while True` in main(): scene.update() for the scene,
\* then time.sleep(1.0 / args.fps).
HeadlessTick ==
    /\ ticks < MaxRun
    /\ PositionsBounded
    /\ effects' = scene_update(impl, effects, current_effect_ID)
    /\ ticks' = ticks + 1
    /\ last' = [op |-> "update"]
    /\ NoFrame
    /\ UNCHANGED << impl, sceneVars, color_palettes, taskVars >>

\* main() with --no-gui: one scene, one effect (led_count 10, fps 10), one
\* segment.
InitRun ==
    /\ impl \in {"models", "core"}
    /\ \E ip \in RunPositions, sp \in RunSpeeds, r \in RunRanges, refl \in BOOLEAN :
          /\ r[1] <= ip /\ ip <= r[2]
          /\ effects = (1 :> NewEffect(1, 10, 10,
                            (1 :> NewSegment(1, <<1, 1, 1, 1>>, Opaque, <<2, 2, 2>>,
                                             sp, r, ip, refl, DefaultDimmer))))
    /\ SceneDefaults
    /\ IdleTasks

NextRun == HeadlessTick

SpecRun == InitRun /\ [][NextRun]_vars

RunSegment == effects[1].segments[1]

\* C21: in wrap mode, after N ticks at constant move_speed and fixed
\* move_range [lo, hi], current_position is congruent to
\* initial_position + N * move_speed * dt modulo (hi - lo + 1).
C21_WrapCongruence ==
    LET s == RunSegment
        span == (s.move_range[2] - s.move_range[1] + 1) * PosDen
        ideal == s.initial_position * PosDen + ticks * Delta(s.move_speed, effects[1].fps)
    IN ~s.is_edge_reflect => (s.current_position - ideal) % span = 0

\* scenario S2: reflect mode, move_range [0, 9], initial_position 5,
\* move_speed 10 (its sign flips at each bounce), effect fps 10
IsS2 ==
    /\ impl = "models"
    /\ effects[1].fps = 10
    /\ RunSegment.is_edge_reflect
    /\ RunSegment.move_range = <<0, 9>>
    /\ RunSegment.initial_position = 5
    /\ Abs(RunSegment.move_speed) = 10

\* C22 as stated: in scenario S2 current_position is 5 after exactly 10
\* update ticks.
C22_S2BackAtFive ==
    (IsS2 /\ ticks = 10) => RunSegment.current_position = 5 * PosDen

\* C22 as amended: in scenario S2 current_position is 3 after exactly 10
\* update ticks and the segment is moving down (4 ticks up to 9, the bounce
\* at the fifth tick, then 5 more ticks down); it is 5 again after 8 ticks.
C22_S2AfterTenTicks ==
    /\ (IsS2 /\ ticks = 10) =>
          RunSegment.current_position = 3 * PosDen /\ RunSegment.move_speed = -10
    /\ (IsS2 /\ ticks = 8) => RunSegment.current_position = 5 * PosDen

W22_S2TenTicks == IsS2 /\ ticks = 10 /\ RunSegment.current_position = 3 * PosDen
(* ------------------------- parameter validation ----------------------- *)
\* LightEffect.update_segment_param: update_param on an existing segment.
update_segment_param_models(variant, effs, effect_id, segment_ID, param_name, value) ==
    IF effect_id \in DOMAIN effs /\ segment_ID \in DOMAIN effs[effect_id].segments
    THEN [effs EXCEPT ![effect_id].segments[segment_ID] =
                          update_param(variant, @, param_name, value)]
    ELSE effs

\* effect.update_segment_param(S, name, value) called by the program itself.
DirectParam(param_name, value) ==
    /\ effects' = update_segment_param_models(impl, effects, 1, 1, param_name, value)
    /\ last' = [op |-> "update_param", param_name |-> param_name, value |-> value]
    /\ NoFrame
    /\ UNCHANGED << impl, sceneVars, color_palettes, ticks, taskVars >>

\* list-valued parameter writes: right and wrong lengths, ordered and
\* inverted ranges
ParamWrites ==
    { <<"color", <<2, 4, 6, 0>> >>, <<"color", <<2, 4>> >>,
      <<"transparency", Half>>, <<"transparency", <<OpDen, 0>> >>,
      <<"length", <<1, 2, 3>> >>, <<"length", <<4, 4>> >>,
      <<"dimmer_time", <<0, 10, 20, 30, 40>> >>, <<"dimmer_time", <<0, 10, 20>> >>,
      <<"move_range", <<2, 8>> >>, <<"move_range", <<8, 2>> >>, <<"move_range", <<6, 9>> >> }

ParamMsgs ==
    { << SegmentAddr(1, 1, "color"), << List(<<2, 4, 6, 0>>) >> >>,
      << SegmentAddr(1, 1, "color"), << List(<<2, 4>>) >> >>,
      << SegmentAddr(1, 1, "color"), << Dict([colors |-> <<3, 3, 3>>]) >> >>,
      << SegmentAddr(1, 1, "transparency"), << List(<<OpDen, 0>>) >> >>,
      << SegmentAddr(1, 1, "position"), << Dict([range |-> List(<<8, 2>>)]) >> >>,
      << SegmentAddr(1, 1, "position"), << Dict([range |-> List(<<2, 3>>)]) >> >>,
      << SegmentAddr(1, 1, "position"), << Dict([range |-> List(<<8, 2, 5>>)]) >> >> }

InitParam ==
    /\ impl \in {"models", "core"}
    /\ \E seg \in OscSegments : effects = (1 :> NewEffect(1, 10, 10, (1 :> seg)))
    /\ SceneDefaults
    /\ IdleTasks

DirectParamAny == \E w \in ParamWrites : DirectParam(w[1], w[2])

OscParamAny == \E m \in ParamMsgs : OscControllers(m[1], m[2])

NextParam == DirectParamAny \/ OscParamAny

SpecParam == InitParam /\ [][NextParam]_vars

\* the list attributes of every segment have their fixed lengths
ListLengths(effs) ==
    \A e \in DOMAIN effs : \A i \in DOMAIN effs[e].segments :
        LET s == effs[e].segments[i]
        IN /\ Len(s.color) = 4 /\ Len(s.transparency) = 4
           /\ Len(s.length) = 3 /\ Len(s.dimmer_time) = 5

RequiredLen == [color |-> 4, transparency |-> 4, length |-> 3, dimmer_time |-> 5]

\* C23: no OSC parameter write and no update_param call breaks
\* len(color) = len(transparency) = 4, len(length) = 3, len(dimmer_time) = 5,
\* and a write carrying a list of another length leaves the model unchanged.
C23_ListLengthsKept ==
    [][ /\ ListLengths(effects) => ListLengths(effects')
        /\ ( /\ last'.op = "update_param"
             /\ last'.param_name \in DOMAIN RequiredLen
             /\ Len(last'.value) # RequiredLen[last'.param_name] ) => effects' = effects
        /\ ( /\ last'.op = "osc"
             /\ last'.address[5].s \in DOMAIN RequiredLen
             /\ last'.args[1].type = "list"
             /\ Len(last'.args[1].l) # RequiredLen[last'.address[5].s] ) =>
                effects' = effects ]_vars

\* the move_range list the last operation wrote to segment 1 of effect 1
\* (<<>> when it wrote none)
RangeWritten(l) ==
    IF l.op = "update_param" /\ l.param_name = "move_range" THEN l.value
    ELSE IF /\ l.op = "osc"
            /\ l.address[5] = Word("position")
            /\ l.args[1].type = "dict"
            /\ Has(l.args[1], "range")
            /\ IsList2(l.args[1].d.range)
    THEN l.args[1].d.range.l
    ELSE <<>>

\* C24: after a move_range write (update_param('move_range', [lo, hi]) or the
\* range key of a position message), move_range[0] <= move_range[1]; a write
\* with lo > hi leaves move_range[1] = move_range[0] + 1, and current_position
\* lies inside the resulting range.
C24_MoveRangeOrdered ==
    [][ (impl = "models" /\ RangeWritten(last') # <<>>) =>
        LET new == effects'[1].segments[1]
            written == RangeWritten(last')
        IN /\ new.move_range[1] <= new.move_range[2]
           /\ written[1] > written[2] => new.move_range[2] = new.move_range[1] + 1
           /\ SegmentInRange(new) ]_vars
(* ------------------------------- dimmer ------------------------------- *)
\* largest time (ms) at which the brightness is sampled, scenario times apart
MaxPhase == 12

DimmerTimes ==
    { <<0, 2, 4, 6, 8>>, <<1, 3, 3, 5, 6>>, <<2, 4, 4, 4, 10>>, <<0, 0, 5, 5, 5>>,
      <<1, 2, 3, 4, 0>>, DefaultDimmer }

SampleTimes == (0..MaxPhase) \cup {50, 500, 950, 1050}

\* core/LightSegment.apply_dimming at elapsed_time = t_ms / 1000; the result
\* is the rational <<num, den>>.  The core class has no fade attribute.
apply_dimming_core(s, t_ms) ==
    IF Len(s.dimmer_time) # 5 THEN <<1, 1>>
    ELSE IF s.dimmer_time[5] <= 0 THEN <<1, 1>>
    ELSE LET F == s.dimmer_time
             t == t_ms % F[5]
         IN IF t < F[1] THEN <<0, 1>>
            ELSE IF F[1] <= t /\ t < F[2] THEN <<t - F[1], F[2] - F[1]>>
            ELSE IF F[2] <= t /\ t < F[3] THEN <<1, 1>>
            ELSE IF F[3] <= t /\ t < F[4] THEN <<(F[4] - F[3]) - (t - F[3]), F[4] - F[3]>>
            ELSE <<0, 1>>

dimming(variant, s, t_ms) ==
    IF variant = "core" THEN apply_dimming_core(s, t_ms) ELSE apply_dimming(s, t_ms)

\* segment.apply_dimming(t) called for segment 1 of effect 1.
Dim(t_ms) ==
    /\ last' = [op |-> "apply_dimming", t_ms |-> t_ms,
                brightness |-> dimming(impl, effects[1].segments[1], t_ms)]
    /\ NoFrame
    /\ UNCHANGED << impl, effects, sceneVars, color_palettes, ticks, taskVars >>

\* One segment with the given dimmer_time; models segments have the fade
\* flag set or cleared after construction.
InitDimmer ==
    /\ impl \in {"models", "core"}
    /\ \E F \in DimmerTimes, fade \in BOOLEAN :
          /\ impl = "core" => fade
          /\ effects = (1 :> NewEffect(1, 10, 10,
                (1 :> [NewSegment(1, <<1, 1, 1, 1>>, Opaque, <<2, 2, 2>>, 0, <<0, 9>>, 5,
                                  TRUE, F) EXCEPT !.fade = fade])))
    /\ SceneDefaults
    /\ IdleTasks

NextDimmer == \E t \in SampleTimes : Dim(t)

SpecDimmer == InitDimmer /\ [][NextDimmer]_vars

DimSegment == effects[1].segments[1]

\* the phase of a sampled time inside the dimmer cycle
Phase(t_ms) == t_ms % DimSegment.dimmer_time[5]

\* fade enabled, cycle length > 0, F[0] <= F[1] <= F[2] <= F[3]
Dimming ==
    LET F == DimSegment.dimmer_time
    IN DimSegment.fade /\ F[5] > 0 /\ F[1] <= F[2] /\ F[2] <= F[3] /\ F[3] <= F[4]

\* a <= b for rationals with positive denominators
RatLeq(a, b) == a[1] * b[2] <= b[1] * a[2]

IsS6 == DimSegment.dimmer_time = <<0, 100, 900, 1000, 1000>> /\ DimSegment.fade

IsHalf(b) == 2 * b[1] = b[2]

\* C26 (scenario S6): with dimmer_time [0, 100, 900, 1000, 1000] and fade on,
\* the brightness is 0.5 at 50 ms, 1.0 at 500 ms, 0.5 at 950 ms and 0.5 at
\* 1050 ms.
C26_S6Brightness ==
    (IsS6 /\ last.op = "apply_dimming") =>
        /\ last.t_ms \in {50, 950, 1050} => IsHalf(last.brightness)
        /\ last.t_ms = 500 => last.brightness[1] = last.brightness[2]
(* --------------------------- simulator loop --------------------------- *)
SimPositions == {0, 5, 9}

SimSpeeds == {-30, 30}

SimFpsValues == {10, 30, 60}

\* LEDSimulator.__init__ over a scene followed by the entry into run(): the
\* loop is about to read its events.
InitSim ==
    /\ impl = "models"
    /\ \E ip \in SimPositions, sp \in SimSpeeds, refl \in BOOLEAN :
          effects = (1 :> NewEffect(1, 10, 10,
                          (1 :> NewSegment(1, <<1, 1, 1, 1>>, Opaque, <<2, 2, 2>>,
                                           sp, <<0, 9>>, ip, refl, DefaultDimmer))))
    /\ SceneDefaults
    /\ render_pc = "idle"
    /\ render_queue = <<>>
    /\ tick_base = [segs |-> <<>>, osc_idle |-> TRUE]
    /\ osc_queue = <<>>
    /\ sent = <<>>
    /\ simulator = [pc |-> "events", is_playing |-> TRUE, fps |-> DEFAULT_FPS]
    /\ process = Running

SimStep(op) ==
    /\ last' = [op |-> op]
    /\ NoFrame
    /\ UNCHANGED << impl, sceneVars, color_palettes, render_pc, render_queue, tick_base,
                    osc_queue, sent, process >>

\* _handle_button_press for the play button (and _handle_key_press for the
\* space key): is_playing is toggled.
SimPlayButton ==
    /\ simulator.pc = "events"
    /\ simulator' = [simulator EXCEPT !.is_playing = ~simulator.is_playing]
    /\ SimStep("play_button")
    /\ UNCHANGED << effects, ticks >>

\* _handle_slider_moved for the fps slider: self.fps = int(event.value).
SimFpsSlider(value) ==
    /\ simulator.pc = "events"
    /\ HasCurrentEffect /\ 1 \in DOMAIN effects[current_effect_ID].segments
    /\ simulator' = [simulator EXCEPT !.fps = value]
    /\ SimStep("fps_slider")
    /\ UNCHANGED << effects, ticks >>

\* The event queue of this iteration is empty: run() goes on to the update.
SimEventsDone ==
    /\ simulator.pc = "events"
    /\ simulator' = [simulator EXCEPT !.pc = "update"]
    /\ SimStep("events_done")
    /\ UNCHANGED << effects, ticks >>

\* run(): if self.is_playing: self.scene.update().
SimUpdate ==
    /\ simulator.pc = "update"
    /\ IF simulator.is_playing
       THEN /\ effects' = scene_update(impl, effects, current_effect_ID)
            /\ ticks' = ticks + 1
       ELSE UNCHANGED << effects, ticks >>
    /\ simulator' = [simulator EXCEPT !.pc = "draw"]
    /\ SimStep("run_update")

\* run(): self.screen.fill(...) and self._draw_led_visualizer(), which is
\* called without its display_rect parameter: the TypeError ends run()
\* before pygame.display.update().
SimDraw ==
    /\ simulator.pc = "draw"
    /\ simulator' = [simulator EXCEPT !.pc = "stopped"]
    /\ SimStep("run_draw")
    /\ UNCHANGED << effects, ticks >>

NextSim ==
    \/ SimPlayButton
    \/ \E v \in SimFpsValues : SimFpsSlider(v)
    \/ SimEventsDone
    \/ SimUpdate
    \/ SimDraw

SpecSim == InitSim /\ [][NextSim]_vars

\* C27: while the loop is paused no step changes a segment (so that a
\* resume continues from the state held at the pause), and the paused loop
\* still renders the frame of that state and goes on to its next iteration.
C27_PausedLoop ==
    [][ /\ ~simulator.is_playing => effects' = effects
        /\ (~simulator.is_playing /\ simulator.pc = "draw") =>
              /\ simulator'.pc = "events"
              /\ led_colors' = scene_get_led_output(effects, current_effect_ID).colors ]_vars

\* C28: a tick of the loop running at fps F advances every segment of the
\* current effect by move_speed * (1 / F).
C28_TickUsesLoopFps ==
    [][ (simulator.pc = "update" /\ simulator.is_playing /\ HasCurrentEffect) =>
          effects'[current_effect_ID].segments =
              update_all(impl, effects[current_effect_ID].segments, simulator.fps) ]_vars
(* ------------------------------- startup ------------------------------ *)
\* main.create_default_segments: the three segments of a default effect
create_default_segments(led_count) ==
    [i \in 1..3 |->
        NewSegment(i, << i % 6, (i + 1) % 6, (i + 2) % 6, (i + 3) % 6 >>,
                   DEFAULT_TRANSPARENCY, DEFAULT_LENGTH,
                   DEFAULT_MOVE_SPEED * (IF i % 2 = 0 THEN 1 ELSE -1),
                   << 0, led_count - 1 >>, (led_count \div 2) - 30 + i * 30,
                   DEFAULT_IS_EDGE_REFLECT, DEFAULT_DIMMER_TIME)]

\* main.create_default_effects on a new LightScene: add_effect of the
\* effects effect_id..num_effects; sc = [effects, order, current_effect_ID]
RECURSIVE create_default_effects(_, _, _)
create_default_effects(sc, effect_id, num_effects) ==
    IF effect_id > num_effects THEN sc
    ELSE create_default_effects(
             add_effect(sc.effects, sc.order, sc.current_effect_ID, "A", effect_id,
                        NewEffect(effect_id, DEFAULT_LED_COUNT, DEFAULT_FPS,
                                  create_default_segments(DEFAULT_LED_COUNT))),
             effect_id + 1, num_effects)

\* LightScene(scene_ID=1) followed by create_default_effects(scene)
DefaultScene ==
    LET sc == create_default_effects(
                  [effects |-> <<>>, order |-> <<>>, current_effect_ID |-> NoEffect], 1, 8)
    IN [effects |-> sc.effects, order |-> sc.order,
        current_effect_ID |-> sc.current_effect_ID, scene_ID |-> 1,
        palettes |-> DEFAULT_COLOR_PALETTES, scene_palette |-> "A"]

\* load_from_json raises on this file content: json.load on malformed JSON,
\* data["scene_ID"] or data["effects"] on a document without the key
LoadRaises(doc) ==
    \/ doc = NotJson
    \/ "scene_ID" \notin DOMAIN doc
    \/ "effects" \notin DOMAIN doc

\* LightScene.load_from_json(args.config_file) when it returns
LoadedScene(doc) ==
    LET sc == load_from_json(doc)
    IN [effects |-> sc.effects, order |-> LoadOrder(doc.effects),
        current_effect_ID |-> sc.current_effect_ID, scene_ID |-> doc.scene_ID,
        palettes |-> sc.palettes, scene_palette |-> sc.scene_palette]

\* contents of the file --config-file names
ConfigDocs == SceneDocs \cup { NotJson, [scene_ID |-> 1, current_palette |-> "B"] }

\* --config-file: not given, naming no file, naming a file with a content
ConfigFiles ==
    { [given |-> FALSE, exists |-> FALSE, doc |-> NotJson],
      [given |-> TRUE, exists |-> FALSE, doc |-> NotJson] }
    \cup { [given |-> TRUE, exists |-> TRUE, doc |-> d] : d \in ConfigDocs }

\* main() after parse_arguments(); port_free tells whether the OSC port can
\* be bound.
InitMain ==
    /\ impl = "models"
    /\ EmptyScene
    /\ render_pc = "idle"
    /\ render_queue = <<>>
    /\ tick_base = [segs |-> <<>>, osc_idle |-> TRUE]
    /\ osc_queue = <<>>
    /\ sent = <<>>
    /\ simulator = NoSimulator
    /\ \E c \in ConfigFiles, so \in BOOLEAN, ng \in BOOLEAN, pf \in BOOLEAN :
          process = [pc |-> "start",
                     args |-> [config_file |-> c, simulator_only |-> so, no_gui |-> ng],
                     port_free |-> pf, server |-> "none", exit_code |-> -1]

MainStep(op) ==
    /\ last' = [op |-> op]
    /\ NoFrame
    /\ UNCHANGED << impl, color_palettes, render_pc, render_queue, tick_base, osc_queue,
                    sent, simulator >>

\* main(): the scene is loaded from --config-file; when load_from_json
\* raises, or no file is there, the default scene is created instead.
MainLoadScene ==
    /\ process.pc = "start"
    /\ LET c == process.args.config_file
           sc == IF c.given /\ c.exists /\ ~LoadRaises(c.doc) THEN LoadedScene(c.doc)
                 ELSE DefaultScene
       IN /\ effects' = sc.effects
          /\ effects_order' = sc.order
          /\ current_effect_ID' = sc.current_effect_ID
          /\ scene_ID' = sc.scene_ID
          /\ palettes' = sc.palettes
          /\ scene_palette' = sc.scene_palette
    /\ process' = [process EXCEPT !.pc = "scene"]
    /\ MainStep("load_scene")
    /\ UNCHANGED ticks

\* main(): OSCHandler(...).start_server() unless --simulator-only; a bind
\* error is caught and printed inside start_server.
MainStartServer ==
    /\ process.pc = "scene"
    /\ process' = [process EXCEPT
                      !.pc = "server",
                      !.server = IF ~process.args.simulator_only /\ process.port_free
                                 THEN "serving" ELSE "none"]
    /\ MainStep("start_server")
    /\ UNCHANGED << effects, sceneVars, ticks >>

\* main() with --no-gui: the headless loop is entered.
MainEnterLoop ==
    /\ process.pc = "server"
    /\ process.args.no_gui
    /\ process' = [process EXCEPT !.pc = "loop"]
    /\ MainStep("enter_loop")
    /\ UNCHANGED << effects, sceneVars, ticks >>

\* main() without --no-gui: LEDSimulator(active_scene) hands the LightScene
\* over as scene_manager (or light_scenes[1] is missing); the exception is
\* printed by main(), the server is stopped and main() returns.
MainStartSimulator ==
    /\ process.pc = "server"
    /\ ~process.args.no_gui
    /\ process' = [process EXCEPT !.pc = "exit", !.server = "none", !.exit_code = 0]
    /\ MainStep("start_simulator")
    /\ UNCHANGED << effects, sceneVars, ticks >>

\* One iteration of the headless loop.
MainTick ==
    /\ process.pc = "loop"
    /\ ticks < MaxTicks
    /\ effects' = scene_update(impl, effects, current_effect_ID)
    /\ ticks' = ticks + 1
    /\ MainStep("update")
    /\ UNCHANGED << sceneVars, process >>

\* KeyboardInterrupt in the loop: the server is stopped, main() returns.
MainInterrupt ==
    /\ process.pc = "loop"
    /\ process' = [process EXCEPT !.pc = "exit", !.server = "none", !.exit_code = 0]
    /\ MainStep("interrupt")
    /\ UNCHANGED << effects, sceneVars, ticks >>

NextMain ==
    \/ MainLoadScene
    \/ MainStartServer
    \/ MainEnterLoop
    \/ MainStartSimulator
    \/ MainTick
    \/ MainInterrupt

SpecMain == InitMain /\ [][NextMain]_vars

\* --config-file names an existing file that load_from_json cannot load
BadConfig ==
    LET c == process.args.config_file
    IN c.given /\ c.exists /\ LoadRaises(c.doc)

\* C29: with --config-file naming an existing file that is malformed JSON or
\* lacks a required key, the program ends with exit code 1 and never starts
\* the OSC server or the loop with some other scene.
C29_BadConfigFatal ==
    BadConfig =>
        /\ process.server # "serving"
        /\ process.pc # "loop"
        /\ process.pc = "exit" => process.exit_code = 1

\* C30: when the OSC port cannot be bound at startup, the program ends with
\* exit code 2 and the loop is never entered.
C30_BindFailureFatal ==
    (~process.args.simulator_only /\ ~process.port_free) =>
        /\ process.pc # "loop"
        /\ process.pc = "exit" => process.exit_code = 2
(* --------------------------- range and ties --------------------------- *)
\* C31: update_param('move_range', [lo, hi]) with lo <= hi leaves
\* current_position clamped into [lo, hi]: unchanged if it was inside, lo if
\* it was below, hi if it was above (both segment variants).
C31_RangeWriteClamps ==
    [][ ( /\ last'.op = "update_param"
          /\ last'.param_name = "move_range"
          /\ last'.value[1] <= last'.value[2] ) =>
        LET old == effects[1].segments[1].current_position
            lo == last'.value[1] * PosDen
            hi == last'.value[2] * PosDen
        IN effects'[1].segments[1].current_position =
               IF old < lo THEN lo ELSE IF old > hi THEN hi ELSE old ]_vars

Sign(x) == IF x < 0 THEN -1 ELSE IF x > 0 THEN 1 ELSE 0

\* the position update_position computes before its boundary tests
Landing(s, f) == s.current_position + Delta(s.move_speed, f)

OnBoundary(s, p) == p = s.move_range[1] * PosDen \/ p = s.move_range[2] * PosDen

\* C32: an update_position step that lands exactly on move_range[0] or
\* move_range[1] leaves current_position at that boundary and keeps the sign
\* of move_speed, in reflect mode and in wrap mode.
C32_TieStaysNoFlip ==
    [][ last'.op = "update" =>
        \A i \in DOMAIN effects[1].segments :
            LET old == effects[1].segments[i]
                new == effects'[1].segments[i]
            IN OnBoundary(old, Landing(old, effects[1].fps)) =>
                  /\ new.current_position = Landing(old, effects[1].fps)
                  /\ Sign(new.move_speed) = Sign(old.move_speed) ]_vars

\* a moving segment that has just stepped from inside its range onto a
\* boundary
W32_LandedOnBoundary ==
    /\ last.op = "update"
    /\ RunSegment.move_speed # 0
    /\ OnBoundary(RunSegment, RunSegment.current_position)
    /\ SegmentInRange([RunSegment EXCEPT !.current_position =
                           @ - Delta(RunSegment.move_speed, effects[1].fps)])
    /\ RunSegment.current_position # RunSegment.initial_position * PosDen
(* ------------------------- core compositing --------------------------- *)
\* core/LightSegment.control_points_offsets: the prefix sums of length,
\* rebuilt by __init__ and by every update_param('length', ...)
control_points_offsets(s) ==
    [i \in 1..(Len(s.length) + 1) |-> SumSeq(SubSeq(s.length, 1, i - 1))]

\* control_positions of core get_light_data:
\* int(current_position + offset * direction) for every offset
control_positions(s) ==
    LET offs == control_points_offsets(s)
    IN [i \in DOMAIN offs |->
           PyInt(s.current_position + offs[i] * s.direction * PosDen, PosDen)]

Between(a, p, b) == (a <= p /\ p <= b) \/ (b <= p /\ p <= a)

\* the sections of core get_light_data that contain led_pos (the code takes
\* the first)
SectionsAt(cp, led_pos) ==
    { i \in 1..(Len(cp) - 1) : Between(cp[i], led_pos, cp[i + 1]) }

\* core/LightSegment.get_light_data at elapsed time t_ms: led_pos ->
\* (rgb, transparency) for the LEDs of the span that lie inside move_range.
\* The interpolation is exact when t is 0, 1/2 or 1, which the section
\* lengths 1 and 2 of the input sets guarantee.
get_light_data_core(s, t_ms) ==
    LET cp == control_positions(s)
        dimming_factor == apply_dimming_core(s, t_ms)
        start_pos == SetMin({ cp[i] : i \in DOMAIN cp })
        end_pos == SetMax({ cp[i] : i \in DOMAIN cp })
        leds == { p \in start_pos..end_pos :
                    /\ s.move_range[1] <= p /\ p <= s.move_range[2]
                    /\ SectionsAt(cp, p) # {} }
        one(led_pos) ==
            LET i == SetMin(SectionsAt(cp, led_pos))
                d == IF cp[i] = cp[i + 1] THEN 1 ELSE Abs(cp[i + 1] - cp[i])
                n == IF cp[i] = cp[i + 1] THEN 0 ELSE Abs(led_pos - cp[i])
                c1 == s.rgb_color[i]
                c2 == s.rgb_color[i + 1]
            IN [rgb |-> [k \in 1..3 |-> PyInt(c1[k] * (d - n) + c2[k] * n, d)],
                transparency |->
                    Max2(0, Min2(OpDen,
                        PyInt((s.transparency[i] * (d - n) + s.transparency[i + 1] * n)
                                  * dimming_factor[1],
                              d * dimming_factor[2])))]
    IN [p \in leds |-> one(p)]

\* The body of the inner loop of core/LightEffect.get_led_output: the entry
\* (rgb, transparency) of led_pos folded into the buffers acc.
CompositeLedCore(acc, led_pos, rgb, transparency, n_leds) ==
    IF ~(0 <= led_pos /\ led_pos < n_leds) THEN acc
    ELSE IF transparency <= 0 THEN acc
    ELSE LET current_trans == acc.transp[led_pos]
         IN IF current_trans >= OpDen
            THEN [colors |-> [acc.colors EXCEPT ![led_pos] = rgb],
                  transp |-> [acc.transp EXCEPT ![led_pos] = transparency]]
            ELSE IF current_trans * OpDen + transparency * (OpDen - current_trans) > 0
            THEN [colors |-> [acc.colors EXCEPT ![led_pos] =
                                 blend_colors(@, rgb, current_trans * OpDen,
                                              transparency * (OpDen - current_trans))],
                  transp |-> [acc.transp EXCEPT ![led_pos] =
                                 OpDen - PyInt((OpDen - current_trans)
                                                   * (OpDen - transparency), OpDen)]]
            ELSE acc

RECURSIVE CompositeDataCore(_, _, _, _)
CompositeDataCore(acc, data, leds, n_leds) ==
    IF leds = {} THEN acc
    ELSE LET p == SetMin(leds)
         IN CompositeDataCore(
                CompositeLedCore(acc, p, data[p].rgb, data[p].transparency, n_leds),
                data, leds \ {p}, n_leds)

RECURSIVE CompositeAllCore(_, _, _, _, _)
CompositeAllCore(acc, segs, order, t_ms, n_leds) ==
    IF order = <<>> THEN acc
    ELSE LET data == get_light_data_core(segs[Head(order)], t_ms)
         IN CompositeAllCore(CompositeDataCore(acc, data, DOMAIN data, n_leds),
                             segs, Tail(order), t_ms, n_leds)

\* core/LightEffect.get_led_output: `for segment in self.segments.values()`
\* visits the segments in the insertion order of the dict.
get_led_output_core(segs, order, t_ms, n_leds) ==
    CompositeAllCore([colors |-> [i \in 0..(n_leds - 1) |-> BLACK],
                      transp |-> [i \in 0..(n_leds - 1) |-> OpDen]],
                     segs, order, t_ms, n_leds)

\* LightEffect.__init__ with the key order of the dict self.segments kept
\* next to its contents
NewEffectOrdered(id, n_leds, f) ==
    [effect_ID |-> id, led_count |-> n_leds, fps |-> f, current_palette |-> "A",
     segments |-> << >>, order |-> << >>]

\* LightEffect.add_segment: self.segments[segment_ID] = segment (a new key
\* goes to the end of the dict, an existing key keeps its place)
add_segment(e, segment_ID, segment) ==
    [e EXCEPT !.segments = (segment_ID :> segment) @@ @,
              !.order = OrderWith(@, segment_ID)]

\* LightEffect.remove_segment
remove_segment(e, segment_ID) ==
    IF segment_ID \in DOMAIN e.segments
    THEN [e EXCEPT !.segments = [i \in (DOMAIN e.segments) \ {segment_ID} |-> e.segments[i]],
                   !.order = OrderWithout(@, segment_ID)]
    ELSE e

\* effect.get_led_output() of either package, with both buffers
effect_get_led_output(variant, e, t_ms) ==
    IF variant = "core"
    THEN get_led_output_core(e.segments, e.order, t_ms, e.led_count)
    ELSE get_led_output(e.segments, e.current_palette, e.led_count)

(* ------------------------- compositing machine ------------------------ *)
Zero == <<0, 0, 0, 0>>

\* dimmer_time with cycle length 0: the envelope is switched off
NoDimmer == <<0, 0, 0, 0, 0>>

\* elapsed wall-clock times (ms) at which the core package samples the
\* envelope: the start of a cycle and the plateau
CompositeTimes == {0, 500}

CompositeSegments ==
    { NewSegment(1, <<1, 1, 1, 1>>, t, <<2, 2, 2>>, 0, <<0, 11>>, 5, TRUE, NoDimmer) :
        t \in {Opaque, Half} }
    \cup
    { [NewSegment(2, <<3, 3, 3, 3>>, t, <<1, 1, 1>>, 0, r, 4, TRUE, DefaultDimmer)
          EXCEPT !.fade = f] :
        t \in {Half, Zero}, r \in { <<0, 9>>, <<4, 5>> }, f \in BOOLEAN }

\* an effect of 10 LEDs without segments
InitComposite ==
    /\ impl \in {"models", "core"}
    /\ effects = (1 :> NewEffectOrdered(1, 10, 10))
    /\ SceneDefaults
    /\ IdleTasks

\* effect.add_segment(segment.segment_ID, segment)
AddSegment(segment) ==
    /\ segment.segment_ID \notin DOMAIN effects[1].segments
    /\ effects' = [effects EXCEPT ![1] = add_segment(@, segment.segment_ID, segment)]
    /\ last' = [op |-> "add_segment", segment_ID |-> segment.segment_ID]
    /\ NoFrame
    /\ UNCHANGED << impl, sceneVars, color_palettes, ticks, taskVars >>

\* effect.remove_segment(segment_ID)
RemoveSegment(segment_ID) ==
    /\ effects' = [effects EXCEPT ![1] = remove_segment(@, segment_ID)]
    /\ last' = [op |-> "remove_segment", segment_ID |-> segment_ID]
    /\ NoFrame
    /\ UNCHANGED << impl, sceneVars, color_palettes, ticks, taskVars >>

\* effect.get_led_output(): the models package renders at its default time
\* 0.0, the core package at the wall-clock time elapsed since construction.
RenderEffect(t_ms) ==
    /\ impl = "models" => t_ms = 0
    /\ LET out == effect_get_led_output(impl, effects[1], t_ms)
       IN /\ led_colors' = out.colors
          /\ led_transparency' = out.transp
    /\ last' = [op |-> "render", t_ms |-> t_ms]
    /\ UNCHANGED << impl, effects, sceneVars, color_palettes, ticks, taskVars >>

AddSegmentAny == \E s \in CompositeSegments : AddSegment(s)

RemoveSegmentAny == \E i \in {1, 2} : RemoveSegment(i)

RenderEffectAny == \E t \in CompositeTimes : RenderEffect(t)

NextComposite == AddSegmentAny \/ RemoveSegmentAny \/ RenderEffectAny

SpecComposite == InitComposite /\ [][NextComposite]_vars

\* the frame (both buffers) the rendered effect would have shown with its
\* segments changed as given
FrameOf(e) == effect_get_led_output(impl, e, last.t_ms)

\* C33: get_led_output composites in ascending segment_id order, so the
\* returned frame does not depend on the order in which the segments were
\* added to the effect.
C33_FrameIgnoresInsertionOrder ==
    last.op = "render" =>
        led_colors = FrameOf([effects[1] EXCEPT !.order = SortedSegments(effects[1].segments)]).colors

\* alpha <= 0 at every LED of the segment: all transparencies 0, or
\* brightness 0
NoAlpha(s) ==
    \/ \A k \in DOMAIN s.transparency : s.transparency[k] <= 0
    \/ dimming(impl, s, last.t_ms)[1] <= 0

\* C34: a contribution with alpha <= 0 (transparency 0 at its control
\* points, or brightness 0) or at a position outside [0, led_count) is
\* skipped: the frame and the accumulated opacity are those of the effect
\* without that segment, and the buffers have exactly led_count entries.
C34_NoAlphaSkipped ==
    last.op = "render" =>
        /\ DOMAIN led_colors = 0..(effects[1].led_count - 1)
        /\ \A i \in DOMAIN effects[1].segments :
              NoAlpha(effects[1].segments[i]) =>
                  LET without == FrameOf(remove_segment(effects[1], i))
                  IN led_colors = without.colors /\ led_transparency = without.transp

\* C35: a segment contributes only to LEDs p with
\* move_range[0] <= p <= move_range[1]: at every other LED the frame is that
\* of the effect without the segment.
C35_OnlyInsideMoveRange ==
    last.op = "render" =>
        \A i \in DOMAIN effects[1].segments :
            LET s == effects[1].segments[i]
                without == FrameOf(remove_segment(effects[1], i))
            IN \A p \in DOMAIN led_colors :
                  (p < s.move_range[1] \/ p > s.move_range[2]) =>
                      /\ led_colors[p] = without.colors[p]
                      /\ led_transparency[p] = without.transp[p]

(* --------------------------- envelope phase --------------------------- *)
\* the envelope value of segment s after n ticks of an effect running at
\* f frames per second: phase (n * dt * 1000) mod cycle_length
EnvelopeAtTick(s, n, f) == apply_dimming(s, (n * 1000) \div f)

\* the segments as the frame of tick n should see them where every envelope
\* value is 0 or 1: a segment at brightness 0 contributes nothing, a segment
\* at brightness 1 renders as if it had no fade
SegmentsAtTick(segs, n, f) ==
    [i \in { j \in DOMAIN segs : EnvelopeAtTick(segs[j], n, f)[1] # 0 } |->
        [segs[i] EXCEPT !.fade = FALSE]]

\* C36: for a segment with fade = true and cycle length > 0 the brightness
\* used in the frame of tick n is the envelope value at phase
\* (n * dt * 1000) mod cycle_length (checked at the ticks where that value
\* is 0 or 1).
C36_BrightnessFollowsTicks ==
    LET e == CurrentEffect
        whole(s) == LET b == EnvelopeAtTick(s, ticks, e.fps) IN b[1] = 0 \/ b[1] = b[2]
    IN (Rendered /\ \A i \in DOMAIN e.segments : whole(e.segments[i])) =>
          led_colors = get_led_output(SegmentsAtTick(e.segments, ticks, e.fps),
                                      e.current_palette, e.led_count).colors

(* ---------------------------- cached length --------------------------- *)
\* C37: in every reachable state a segment's cached total_length equals the
\* sum of its length list, so the span get_light_data renders starts at
\* int(current_position - sum(length) / 2) and is sum(length) wide.
C37_TotalLengthIsSum ==
    \A p \in AllSegments :
        LET s == effects[p[1]].segments[p[2]]
            positions == get_light_data(s, effects[p[1]].current_palette).positions
        IN /\ s.total_length = SumSeq(s.length)
           /\ positions[1] =
                  PyInt(2 * s.current_position - SumSeq(s.length) * PosDen, 2 * PosDen)
           /\ positions[4] - positions[1] = SumSeq(s.length)

(* --------------------------- direction flag --------------------------- *)
\* C38: in the core segment variant, after any sequence of
\* update_param('move_speed', v) calls and update_position steps, direction
\* is -1 exactly when move_speed < 0 and +1 otherwise.
C38_DirectionFollowsSpeed ==
    impl = "core" =>
        \A p \in AllSegments :
            LET s == effects[p[1]].segments[p[2]]
            IN s.direction = IF s.move_speed < 0 THEN -1 ELSE 1

(* --------------------------- current effect --------------------------- *)
\* LightScene.switch_effect: the new current_effect_ID
switch_effect(effs, cur, effect_ID) ==
    IF effect_ID \in DOMAIN effs THEN effect_ID ELSE cur

SwitchEffect(effect_ID) ==
    /\ current_effect_ID' = switch_effect(effects, current_effect_ID, effect_ID)
    /\ last' = [op |-> "switch_effect", effect_ID |-> effect_ID]
    /\ NoFrame
    /\ UNCHANGED << impl, effects, effects_order, scene_ID, palettes, scene_palette,
                    color_palettes, ticks, taskVars >>

\* scene files: one naming its own effect as current, one without the key,
\* one naming an effect the file does not contain
CurrentDocs ==
    { [scene_ID |-> 1, current_effect_ID |-> 2,
       effects |-> << <<1, EffectEntry(1)>>, <<2, EffectEntry(2)>> >>],
      [scene_ID |-> 1, effects |-> << <<2, EffectEntry(2)>> >>],
      [scene_ID |-> 1, current_effect_ID |-> 3, effects |-> << <<1, EffectEntry(1)>> >>] }

InitCurrent ==
    /\ impl = "models"
    /\ EmptyScene
    /\ IdleTasks

SwitchEffectAny == \E id \in EffectIds : SwitchEffect(id)

LoadCurrentAny == \E d \in CurrentDocs : LoadScene(d)

NextCurrent == AddEffectAny \/ RemoveEffectAny \/ SwitchEffectAny \/ LoadCurrentAny

SpecCurrent == InitCurrent /\ [][NextCurrent]_vars

\* C39: after every add_effect, remove_effect and switch_effect, and in
\* every scene returned by load_from_json, current_effect_ID is None if and
\* only if the scene has no effects and otherwise is the id of an effect of
\* the scene; switch_effect to an unknown id changes nothing.
C39_CurrentEffectExists ==
    [][ /\ (current_effect_ID' = NoEffect) <=> (DOMAIN effects' = {})
        /\ current_effect_ID' # NoEffect => current_effect_ID' \in DOMAIN effects'
        /\ (last'.op = "switch_effect" /\ last'.effect_ID \notin DOMAIN effects) =>
              (effects' = effects /\ current_effect_ID' = current_effect_ID) ]_vars

(* --------------------------- palette writes --------------------------- *)
\* C40: a successful /palette/X write changes only the contents of palette
\* X: the current palette of every effect and of the scene, every segment
\* attribute and every other palette stay as they were.
C40_PaletteWriteTouchesOnlyX ==
    [][ ( /\ last'.op = "osc_palette"
          /\ PaletteMsgAccepted(last'.palette_id, last'.value) ) =>
        /\ DOMAIN effects' = DOMAIN effects
        /\ \A e \in DOMAIN effects :
              /\ effects'[e].current_palette = effects[e].current_palette
              /\ effects'[e].segments = effects[e].segments
        /\ scene_palette' = scene_palette
        /\ \A n \in (DOMAIN color_palettes) \ {last'.palette_id} :
              color_palettes'[n] = color_palettes[n]
        /\ \A n \in (DOMAIN palettes) \ {last'.palette_id} : palettes'[n] = palettes[n] ]_vars

====
